---- MODULE Spec2Model ----
(***************************************************************************)
(* GraphQL-LD mutation compiler (MutationConverter): a GraphQL mutation    *)
(* document and a normalized JSON-LD context are compiled into SPARQL      *)
(* UPDATE algebra.  Strings are sequences of one-character strings so that *)
(* startsWith / endsWith / includes / slice / concatenation are computed   *)
(* as the code computes them.                                              *)
(***************************************************************************)
EXTENDS Integers, Sequences, FiniteSets, TLC

\* ------------------------------------------------------------------------
\* Bounds of the explored input space
\* ------------------------------------------------------------------------
\* most root fields in one mutation document
MaxRootFields == 2
\* most input-object fields in one mutation document (all root fields together)
MaxFields == 2

\* ------------------------------------------------------------------------
\* String helpers (JavaScript String methods)
\* ------------------------------------------------------------------------
startsWith(s, p) == Len(s) >= Len(p) /\ SubSeq(s, 1, Len(p)) = p

endsWith(s, p) == Len(s) >= Len(p) /\ SubSeq(s, Len(s) - Len(p) + 1, Len(s)) = p

\* s.includes(c) for a one-character c
includes(s, c) == \E i \in 1..Len(s) : s[i] = c

\* s.substring(n): drops the first n characters
substring(s, n) == SubSeq(s, n + 1, Len(s))

\* s.slice(0, -n): drops the last n characters
sliceEnd(s, n) == SubSeq(s, 1, Len(s) - n)

LowerAlphabet ==
  <<"a","b","c","d","e","f","g","h","i","j","k","l","m","n","o","p","q","r","s","t","u","v","w","x","y","z">>

UpperAlphabet ==
  <<"A","B","C","D","E","F","G","H","I","J","K","L","M","N","O","P","Q","R","S","T","U","V","W","X","Y","Z">>

toUpperCaseChar(c) ==
  IF \E i \in 1..26 : LowerAlphabet[i] = c
  THEN UpperAlphabet[CHOOSE i \in 1..26 : LowerAlphabet[i] = c]
  ELSE c

toLowerCaseChar(c) ==
  IF \E i \in 1..26 : UpperAlphabet[i] = c
  THEN LowerAlphabet[CHOOSE i \in 1..26 : UpperAlphabet[i] = c]
  ELSE c

toLowerCase(s) == [i \in 1..Len(s) |-> toLowerCaseChar(s[i])]

\* typeName.charAt(0).toUpperCase() + typeName.slice(1)
capitalize(s) == IF s = <<>> THEN <<>> ELSE <<toUpperCaseChar(s[1])>> \o Tail(s)

\* ------------------------------------------------------------------------
\* IRIs the code names
\* ------------------------------------------------------------------------
\* 'http://www.w3.org/1999/02/22-rdf-syntax-ns#type'
RDF_TYPE ==
  <<"h","t","t","p",":","/","/","w","w","w",".","w","3",".","o","r","g","/","1","9","9","9","/","0","2","/","2","2","-","r","d","f","-","s","y","n","t","a","x","-","n","s","#","t","y","p","e">>

\* 'http://www.w3.org/2001/XMLSchema#'
XSD_NS ==
  <<"h","t","t","p",":","/","/","w","w","w",".","w","3",".","o","r","g","/","2","0","0","1","/","X","M","L","S","c","h","e","m","a","#">>

XSD_INTEGER == XSD_NS \o <<"i","n","t","e","g","e","r">>

XSD_DOUBLE == XSD_NS \o <<"d","o","u","b","l","e">>

XSD_BOOLEAN == XSD_NS \o <<"b","o","o","l","e","a","n">>

\* datatype of a literal made without a datatype (plain literal)
XSD_STRING == XSD_NS \o <<"s","t","r","i","n","g">>

XSD_DECIMAL == XSD_NS \o <<"d","e","c","i","m","a","l">>

\* ------------------------------------------------------------------------
\* RDF terms (rdf-data-factory) and algebra nodes (sparqlalgebrajs Factory)
\* ------------------------------------------------------------------------
namedNode(v) == [termType |-> "NamedNode", value |-> v, datatype |-> <<>>]

variable(v) == [termType |-> "Variable", value |-> v, datatype |-> <<>>]

\* dataFactory.literal(value, datatype?): without a datatype the literal is plain
literal(v, dt) == [termType |-> "Literal", value |-> v, datatype |-> dt]

quad(s, p, o) == [subject |-> s, predicate |-> p, object |-> o, graph |-> "DefaultGraph"]

quadToAlgebraPattern(q) ==
  [type |-> "pattern", subject |-> q.subject, predicate |-> q.predicate,
   object |-> q.object, graph |-> q.graph]

\* ------------------------------------------------------------------------
\* Outcomes of code that may throw
\* ------------------------------------------------------------------------
\* every throw of MutationConverter is `new Error(message)`: an Error with
\* no `code` property
NoCode == "none"

Throw(msg) == [ok |-> FALSE, error |-> [name |-> "Error", message |-> msg, code |-> NoCode]]

Return(v) == [ok |-> TRUE, value |-> v]

\* the rest of a function body after a call that may throw: F(value) when
\* the call returned, the throw itself when it threw
Try(r, F(_)) == IF r.ok THEN F(r.value) ELSE r

\* the rest of a function body after a local constant is bound
Const(v, F(_)) == F(v)

\* ------------------------------------------------------------------------
\* JSON-LD context (JsonLdContextNormalized.getContextRaw())
\*   base, vocab : [present, value]       ('@base', '@vocab')
\*   terms       : term name -> [form, id, type]
\*                 form "string": a bare IRI; form "object": {'@id', '@type'?}
\* ------------------------------------------------------------------------
Absent == [present |-> FALSE, value |-> <<>>]

Present(v) == [present |-> TRUE, value |-> v]

StringTerm(iri) == [form |-> "string", id |-> iri, type |-> <<>>]

ObjectTerm(iri, type) == [form |-> "object", id |-> iri, type |-> type]

AT_ID == <<"@","i","d">>

hasTerm(context, key) == key \in DOMAIN context.terms

\* expandIri with the base joined as it is, a trailing slash not removed
expandIriKeepingSlash(context, iri) ==
  IF startsWith(iri, <<"h","t","t","p",":","/","/">>)
     \/ startsWith(iri, <<"h","t","t","p","s",":","/","/">>)
  THEN iri
  ELSE IF ~context.base.present \/ context.base.value = <<>>
       THEN iri
       ELSE context.base.value \o <<"/">> \o iri

expandIri(context, iri) ==
  IF startsWith(iri, <<"h","t","t","p",":","/","/">>)
     \/ startsWith(iri, <<"h","t","t","p","s",":","/","/">>)
  THEN iri
  ELSE IF ~context.base.present \/ context.base.value = <<>>
       THEN iri
       ELSE LET base == context.base.value
                cleanBase == IF endsWith(base, <<"/">>) THEN sliceEnd(base, 1) ELSE base
            IN cleanBase \o <<"/">> \o iri

getPredicateIri(context, fieldName) ==
  IF hasTerm(context, fieldName)
  THEN Return(namedNode(context.terms[fieldName].id))
  ELSE Throw("No IRI mapping found for predicate")

getTypeIri(context, typeName) ==
  LET key == IF hasTerm(context, typeName) THEN typeName ELSE capitalize(typeName)
  IN IF hasTerm(context, key)
     THEN Return(namedNode(context.terms[key].id))
     ELSE IF context.vocab.present
          THEN Return(namedNode(context.vocab.value \o typeName))
          ELSE Throw("No IRI mapping found for type")

\* inversePatterns: product<->reviews ... (a Record<string, string>)
inversePatterns ==
  ( <<"p","r","o","d","u","c","t">> :> <<"r","e","v","i","e","w","s">> ) @@
  ( <<"r","e","v","i","e","w">>     :> <<"p","r","o","d","u","c","t">> ) @@
  ( <<"u","s","e","r">>             :> <<"p","o","s","t","s">> ) @@
  ( <<"p","o","s","t">>             :> <<"u","s","e","r">> ) @@
  ( <<"a","u","t","h","o","r">>     :> <<"w","o","r","k","s">> ) @@
  ( <<"w","o","r","k">>             :> <<"a","u","t","h","o","r">> )

\* the inverse predicate, or "none found": [found, node]
getInversePredicateIri(context, relationshipName) ==
  IF relationshipName \in DOMAIN inversePatterns
  THEN Const(getPredicateIri(context, inversePatterns[relationshipName]), LAMBDA r :
         IF r.ok THEN [found |-> TRUE, node |-> r.value]
                 ELSE [found |-> FALSE, node |-> namedNode(<<>>)])
  ELSE [found |-> FALSE, node |-> namedNode(<<>>)]

relationshipFields ==
  { <<"p","r","o","d","u","c","t">>, <<"r","e","v","i","e","w">>, <<"u","s","e","r">>,
    <<"a","u","t","h","o","r">>, <<"o","w","n","e","r">>, <<"c","r","e","a","t","o","r">>,
    <<"p","a","r","e","n","t">>, <<"c","h","i","l","d">> }

isRelationshipField(context, fieldName) ==
  \/ /\ hasTerm(context, fieldName)
     /\ context.terms[fieldName].form = "object"
     /\ context.terms[fieldName].type = AT_ID
  \/ toLowerCase(fieldName) \in relationshipFields

\* ------------------------------------------------------------------------
\* GraphQL AST (graphql-js): value nodes, arguments, root fields
\*   ValueNode : [kind, value, fields]  kind is the graphql-js Kind string;
\*               value is the lexical text of a scalar; fields are the
\*               ObjectField nodes [name, value] of an ObjectValue
\* ------------------------------------------------------------------------
StringValue(v) == [kind |-> "StringValue", value |-> v, fields |-> <<>>]

IntValue(v) == [kind |-> "IntValue", value |-> v, fields |-> <<>>]

FloatValue(v) == [kind |-> "FloatValue", value |-> v, fields |-> <<>>]

\* v is the text String(valueNode.value) gives: 'true' or 'false'
BooleanValue(v) == [kind |-> "BooleanValue", value |-> v, fields |-> <<>>]

NullValue == [kind |-> "NullValue", value |-> <<>>, fields |-> <<>>]

\* $name
VariableRef(v) == [kind |-> "Variable", value |-> v, fields |-> <<>>]

ObjectValue(fs) == [kind |-> "ObjectValue", value |-> <<>>, fields |-> fs]

ObjectField(n, v) == [name |-> n, value |-> v]

Argument(n, v) == [name |-> n, value |-> v]

FieldNode(n, args) == [name |-> n, arguments |-> args]

N_id == <<"i","d">>

N_input == <<"i","n","p","u","t">>

\* Array.prototype.find on nodes by name: index of the first match, 0 if none
findByName(nodes, n) ==
  IF \E i \in 1..Len(nodes) : nodes[i].name = n
  THEN CHOOSE i \in 1..Len(nodes) :
         /\ nodes[i].name = n
         /\ \A j \in 1..(i - 1) : nodes[j].name # n
  ELSE 0

\* parseValueNode that removes double quotes from a String value itself
parseValueNodeStrippingQuotes(valueNode) ==
  CASE valueNode.kind = "StringValue" ->
         Return(literal(SelectSeq(valueNode.value, LAMBDA c : c # "\""), XSD_STRING))
    [] valueNode.kind = "IntValue" -> Return(literal(valueNode.value, XSD_INTEGER))
    [] valueNode.kind = "FloatValue" -> Return(literal(valueNode.value, XSD_DOUBLE))
    [] valueNode.kind = "BooleanValue" -> Return(literal(valueNode.value, XSD_BOOLEAN))
    [] OTHER -> Throw("Unsupported GraphQL value kind")

parseValueNode(valueNode) ==
  CASE valueNode.kind = "StringValue" -> Return(literal(valueNode.value, XSD_STRING))
    [] valueNode.kind = "IntValue" -> Return(literal(valueNode.value, XSD_INTEGER))
    [] valueNode.kind = "FloatValue" -> Return(literal(valueNode.value, XSD_DOUBLE))
    [] valueNode.kind = "BooleanValue" -> Return(literal(valueNode.value, XSD_BOOLEAN))
    [] OTHER -> Throw("Unsupported GraphQL value kind")

\* the injection check without the carriage return
hasIllegalIriCharsNoCr(iriValue) ==
  \/ includes(iriValue, "\n")
  \/ includes(iriValue, ">")
  \/ includes(iriValue, "<")

\* the injection check both id paths apply: \n, \r, > and <
hasIllegalIriChars(iriValue) ==
  \/ includes(iriValue, "\n")
  \/ includes(iriValue, "\r")
  \/ includes(iriValue, ">")
  \/ includes(iriValue, "<")

\* ------------------------------------------------------------------------
\* UUID minting.  Math.random() is an input: rnd[i] in 0..15 is the value of
\* (Math.random() * 16) | 0 drawn for the i-th character of the template.
\* ------------------------------------------------------------------------
HexDigits == <<"0","1","2","3","4","5","6","7","8","9","a","b","c","d","e","f">>

\* 'xxxxxxxx-xxxx-4xxx-yxxx-xxxxxxxxxxxx'
UuidTemplate ==
  <<"x","x","x","x","x","x","x","x","-","x","x","x","x","-","4","x","x","x","-","y","x","x","x","-","x","x","x","x","x","x","x","x","x","x","x","x">>

generateUUID(rnd) ==
  [i \in 1..Len(UuidTemplate) |->
     LET c == UuidTemplate[i]
         r == rnd[i]
     IN CASE c = "x" -> HexDigits[r + 1]
          [] c = "y" -> HexDigits[((r % 4) + 8) + 1]
          [] OTHER -> c]

URN_UUID == <<"u","r","n",":","u","u","i","d",":">>

\* ------------------------------------------------------------------------
\* MutationConverter.handleCreate / handleUpdate / handleDelete
\* ------------------------------------------------------------------------
\* the relationship branch of the forEach callback of handleCreate: the
\* quads it pushes, or the throw
createRelationship(context, localSubject, relationshipName, relatedEntityNode) ==
  Try(getPredicateIri(context, relationshipName), LAMBDA relationshipPredicateIri :
    Const(getInversePredicateIri(context, relationshipName), LAMBDA inverse :
      Return(<<quad(localSubject, relationshipPredicateIri, relatedEntityNode)>>
             \o (IF inverse.found
                 THEN <<quad(relatedEntityNode, inverse.node, localSubject)>>
                 ELSE <<>>))))

\* the forEach callback of handleCreate on a field other than id: the quads
\* it pushes, or the throw
createField(context, field, localSubject) ==
  Try(getPredicateIri(context, field.name), LAMBDA predicateIri :
    IF (endsWith(field.name, <<"I","d">>) \/ isRelationshipField(context, field.name))
       /\ field.value.kind = "StringValue"
    THEN createRelationship(context, localSubject,
           IF endsWith(field.name, <<"I","d">>) THEN sliceEnd(field.name, 2) ELSE field.name,
           namedNode(expandIri(context, field.value.value)))
    ELSE Try(parseValueNode(field.value), LAMBDA objectValue :
           Return(<<quad(localSubject, predicateIri, objectValue)>>)))

\* the forEach over inputObject.fields of handleCreate: the quads pushed so
\* far, or the first throw
RECURSIVE createFieldLoop(_, _, _, _)
createFieldLoop(context, fields, localSubject, quads) ==
  IF fields = <<>> THEN Return(quads)
  ELSE IF Head(fields).name = N_id
  THEN createFieldLoop(context, Tail(fields), localSubject, quads)
  ELSE Try(createField(context, Head(fields), localSubject), LAMBDA pushed :
         createFieldLoop(context, Tail(fields), localSubject, quads \o pushed))

\* localSubject of handleCreate: from the id field (index f of the input
\* fields, 0 when there is none) or minted
createSubject(context, fields, f, rnd) ==
  IF f = 0 THEN Return(namedNode(URN_UUID \o generateUUID(rnd)))
  ELSE IF fields[f].value.kind # "StringValue"
  THEN Throw("Input 'id' field must be a String for create.")
  ELSE IF hasIllegalIriChars(fields[f].value.value)
  THEN Throw("Invalid IRI: contains illegal characters that could cause injection")
  ELSE Return(namedNode(expandIri(context, fields[f].value.value)))

\* returns the quads array after the call, or the throw
handleCreate(context, node, entityName, quads, rnd) ==
  Const(findByName(node.arguments, N_input), LAMBDA a :
    IF a = 0 \/ node.arguments[a].value.kind # "ObjectValue"
    THEN Throw("Create mutation must have an 'input' object argument")
    ELSE
      Const(node.arguments[a].value.fields, LAMBDA fields :
        Try(getTypeIri(context, entityName), LAMBDA entityTypeIri :
          Try(createSubject(context, fields, findByName(fields, N_id), rnd),
              LAMBDA localSubject :
                createFieldLoop(context, fields, localSubject,
                  quads \o <<quad(localSubject, namedNode(RDF_TYPE), entityTypeIri)>>)))))

OLD_ == <<"o","l","d","_">>

\* the forEach callback of handleUpdate on a field other than id: the lists
\* after its three pushes, or the throw
updateField(context, field, subject, lists) ==
  Try(getPredicateIri(context, field.name), LAMBDA predicateIri :
    Try(parseValueNode(field.value), LAMBDA newObjectValue :
      Const(variable(OLD_ \o field.name), LAMBDA oldObjectVar :
        Return(
          [deleteQuads |-> lists.deleteQuads \o <<quad(subject, predicateIri, oldObjectVar)>>,
           insertQuads |-> lists.insertQuads \o <<quad(subject, predicateIri, newObjectValue)>>,
           wherePatterns |-> lists.wherePatterns
                             \o <<quadToAlgebraPattern(
                                    quad(subject, predicateIri, oldObjectVar))>>]))))

\* the forEach over inputObject.fields of handleUpdate
RECURSIVE updateFieldLoop(_, _, _, _)
updateFieldLoop(context, fields, subject, lists) ==
  IF fields = <<>> THEN Return(lists)
  ELSE IF Head(fields).name = N_id
  THEN Throw("'id' field cannot be updated via input object in update mutation.")
  ELSE Try(updateField(context, Head(fields), subject, lists), LAMBDA pushed :
         updateFieldLoop(context, Tail(fields), subject, pushed))

\* lists = [insertQuads, deleteQuads, wherePatterns]; returns them after the
\* call, or the throw
handleUpdate(context, node, subject, lists) ==
  Const(findByName(node.arguments, N_input), LAMBDA a :
    IF a = 0 \/ node.arguments[a].value.kind # "ObjectValue"
    THEN Throw("Update mutation must have an 'input' object argument")
    ELSE Try(updateFieldLoop(context, node.arguments[a].value.fields, subject, lists),
             LAMBDA pushed :
               IF Len(pushed.insertQuads) = 0
               THEN Throw("Update operation has no fields to update in 'input'.")
               ELSE Return(pushed)))

\* lists = [deleteQuads, wherePatterns]
handleDelete(subject, lists) ==
  Const(quad(subject, variable(<<"p","_","d","e","l">>), variable(<<"o","_","d","e","l">>)),
        LAMBDA q :
          [deleteQuads |-> lists.deleteQuads \o <<q>>,
           wherePatterns |-> lists.wherePatterns \o <<quadToAlgebraPattern(q)>>])

\* ------------------------------------------------------------------------
\* sparqlalgebrajs Factory nodes built by convert
\* ------------------------------------------------------------------------
createBgp(patterns) == [type |-> "bgp", patterns |-> patterns]

\* an argument passed as undefined leaves the clause out: Absent
createDeleteInsert(deleteQuads, insertQuads, where) ==
  [type |-> "deleteinsert", delete |-> deleteQuads, insert |-> insertQuads, where |-> where]

createCompositeUpdate(updates) == [type |-> "compositeupdate", updates |-> updates]

mapToPatterns(quads) == [i \in 1..Len(quads) |-> quadToAlgebraPattern(quads[i])]

\* ------------------------------------------------------------------------
\* MutationConverter.convert
\* ------------------------------------------------------------------------
\* the visitor state of convert before the first Field is visited
VisitorInit ==
  [operationType |-> "null", entityTypeName |-> <<>>, subjectHint |-> Absent,
   createQuads |-> <<>>, updateDeleteQuads |-> <<>>, updateInsertQuads |-> <<>>,
   updateWherePatterns |-> <<>>, deleteQuads |-> <<>>, deleteWherePatterns |-> <<>>]

\* the operation kind a root field name selects ("null": none)
operationOf(mutationName) ==
  CASE startsWith(mutationName, <<"c","r","e","a","t","e">>) -> "create"
    [] startsWith(mutationName, <<"u","p","d","a","t","e">>) -> "update"
    [] startsWith(mutationName, <<"d","e","l","e","t","e">>) -> "delete"
    [] OTHER -> "null"

\* subjectOf without the Kind.STRING test on the id argument
subjectOfAnyKind(context, node, i) ==
  IF i = 0
  THEN Throw("mutations require an 'id' argument of type String.")
  ELSE IF hasIllegalIriChars(node.arguments[i].value.value)
  THEN Throw("Invalid IRI: contains illegal characters that could cause injection")
  ELSE Return(namedNode(expandIri(context, node.arguments[i].value.value)))

\* the subject of an update or delete, from the id argument (index i of the
\* arguments, 0 when there is none)
subjectOf(context, node, i) ==
  IF i = 0 \/ node.arguments[i].value.kind # "StringValue"
  THEN Throw("mutations require an 'id' argument of type String.")
  ELSE IF hasIllegalIriChars(node.arguments[i].value.value)
  THEN Throw("Invalid IRI: contains illegal characters that could cause injection")
  ELSE Return(namedNode(expandIri(context, node.arguments[i].value.value)))

\* the first root field: operation kind, entity name and (update/delete)
\* the subject taken from the id argument
identifyOperation(context, node, st) ==
  Const(operationOf(node.name), LAMBDA kind :
    IF kind = "null" THEN Throw("Unsupported mutation operation")
    ELSE IF kind = "create"
    THEN Return([st EXCEPT !.operationType = kind,
                           !.entityTypeName = substring(node.name, 6)])
    ELSE Try(subjectOf(context, node, findByName(node.arguments, N_id)), LAMBDA subject :
           Return([st EXCEPT !.operationType = kind,
                             !.entityTypeName = substring(node.name, 6),
                             !.subjectHint = Present(subject)])))

\* the handler call of the Field callback, on the visitor state s1
dispatch(context, node, s1, rnd) ==
  CASE s1.operationType = "create" ->
         Try(handleCreate(context, node, s1.entityTypeName, s1.createQuads, rnd),
             LAMBDA quads : Return([s1 EXCEPT !.createQuads = quads]))
    [] s1.operationType = "update" /\ s1.subjectHint.present ->
         Try(handleUpdate(context, node, s1.subjectHint.value,
                          [insertQuads |-> s1.updateInsertQuads,
                           deleteQuads |-> s1.updateDeleteQuads,
                           wherePatterns |-> s1.updateWherePatterns]),
             LAMBDA lists :
               Return([s1 EXCEPT !.updateInsertQuads = lists.insertQuads,
                                 !.updateDeleteQuads = lists.deleteQuads,
                                 !.updateWherePatterns = lists.wherePatterns]))
    [] s1.operationType = "delete" /\ s1.subjectHint.present ->
         Const(handleDelete(s1.subjectHint.value,
                            [deleteQuads |-> s1.deleteQuads,
                             wherePatterns |-> s1.deleteWherePatterns]),
               LAMBDA lists :
                 Return([s1 EXCEPT !.deleteQuads = lists.deleteQuads,
                                   !.deleteWherePatterns = lists.wherePatterns]))
    [] OTHER -> Return(s1)

\* the Field callback of the visitor, for one root field
visitField(context, node, st, rnd) ==
  Try(IF st.operationType = "null" THEN identifyOperation(context, node, st) ELSE Return(st),
      LAMBDA s1 : dispatch(context, node, s1, rnd))

\* visit(ast, ...): the Field callback runs on every root field in document
\* order (it returns false, so nothing below a root field is visited)
RECURSIVE visitFields(_, _, _, _, _)
visitFields(context, selections, i, st, rnds) ==
  IF i > Len(selections) THEN Return(st)
  ELSE Try(visitField(context, selections[i], st, rnds[i]), LAMBDA s1 :
         visitFields(context, selections, i + 1, s1, rnds))

\* the code after visit(): the algebra assembled from the visitor state
assemble(st) ==
  IF st.operationType = "create" /\ Len(st.createQuads) > 0
  THEN Return(createCompositeUpdate(<<
         createDeleteInsert(Absent, Present(mapToPatterns(st.createQuads)), Absent)>>))
  ELSE IF st.operationType = "update"
          /\ (Len(st.updateInsertQuads) > 0 \/ Len(st.updateDeleteQuads) > 0)
  THEN Return(createCompositeUpdate(<<
         createDeleteInsert(
           IF Len(st.updateDeleteQuads) > 0
             THEN Present(mapToPatterns(st.updateDeleteQuads)) ELSE Absent,
           IF Len(st.updateInsertQuads) > 0
             THEN Present(mapToPatterns(st.updateInsertQuads)) ELSE Absent,
           Present(createBgp(st.updateWherePatterns)))>>))
  ELSE IF st.operationType = "delete" /\ Len(st.deleteQuads) > 0
  THEN Return(createCompositeUpdate(<<
         createDeleteInsert(Present(mapToPatterns(st.deleteQuads)), Absent,
                            Present(createBgp(st.deleteWherePatterns)))>>))
  ELSE Throw("Failed to convert mutation to SPARQL algebra.")

\* mutation = [operation, selections]: the parsed document (one operation
\* definition); rnds[i] is the random source of the i-th root field
convert(context, mutation, rnds) ==
  IF mutation.operation # "mutation"
  THEN Throw("Only mutation operations are supported.")
  ELSE Try(visitFields(context, mutation.selections, 1, VisitorInit, rnds),
           LAMBDA st : assemble(st))

\* ------------------------------------------------------------------------
\* toSparql (sparqlalgebrajs): the SPARQL UPDATE text of an algebra
\* ------------------------------------------------------------------------
RECURSIVE concatAll(_)
concatAll(ss) == IF ss = <<>> THEN <<>> ELSE Head(ss) \o concatAll(Tail(ss))

escapeChar(c) ==
  CASE c = "\\" -> <<"\\", "\\">>
    [] c = "\"" -> <<"\\", "\"">>
    [] c = "\n" -> <<"\\", "n">>
    [] c = "\r" -> <<"\\", "r">>
    [] c = "\t" -> <<"\\", "t">>
    [] OTHER -> <<c>>

escapeLiteral(v) == concatAll([i \in 1..Len(v) |-> escapeChar(v[i])])

termToString(t) ==
  CASE t.termType = "NamedNode" -> <<"<">> \o t.value \o <<">">>
    [] t.termType = "Variable" -> <<"?">> \o t.value
    [] OTHER -> <<"\"">> \o escapeLiteral(t.value) \o <<"\"">>
                \o (IF t.datatype = XSD_STRING THEN <<>>
                    ELSE <<"^","^","<">> \o t.datatype \o <<">">>)

patternToString(p) ==
  termToString(p.subject) \o <<" ">> \o termToString(p.predicate) \o <<" ">>
  \o termToString(p.object) \o <<" ", ".", " ">>

blockToString(patterns) ==
  <<"{", " ">> \o concatAll([i \in 1..Len(patterns) |-> patternToString(patterns[i])])
  \o <<"}">>

KW_INSERT_DATA == <<"I","N","S","E","R","T"," ","D","A","T","A"," ">>

KW_DELETE == <<"D","E","L","E","T","E"," ">>

KW_INSERT == <<" ","I","N","S","E","R","T"," ">>

KW_WHERE == <<" ","W","H","E","R","E"," ">>

deleteInsertToString(u) ==
  IF ~u.delete.present /\ ~u.where.present
  THEN KW_INSERT_DATA \o blockToString(u.insert.value)
  ELSE IF ~u.insert.present
  THEN KW_DELETE \o blockToString(u.delete.value)
       \o KW_WHERE \o blockToString(u.where.value.patterns)
  ELSE KW_DELETE \o blockToString(u.delete.value)
       \o KW_INSERT \o blockToString(u.insert.value)
       \o KW_WHERE \o blockToString(u.where.value.patterns)

toSparql(algebra) ==
  concatAll([i \in 1..Len(algebra.updates) |->
               (IF i > 1 THEN <<";", " ">> ELSE <<>>)
               \o deleteInsertToString(algebra.updates[i])])

\* ------------------------------------------------------------------------
\* MutationConverter.convertToSparql
\*   variables: Absent (undefined) or Present(<keys of the map>)
\* ------------------------------------------------------------------------
convertToSparql(context, mutation, variables, rnds) ==
  IF variables.present /\ Len(variables.value) > 0
  THEN Throw("Variable substitution is not yet implemented in mutation conversion")
  ELSE Try(convert(context, mutation, rnds), LAMBDA algebra : Return(toSparql(algebra)))

\* ------------------------------------------------------------------------
\* Explored inputs: contexts, mutation documents, random sources
\* ------------------------------------------------------------------------
HTTP_E == <<"h","t","t","p",":","/","/","e">>

N_name == <<"n","a","m","e">>

N_age == <<"a","g","e">>

N_price == <<"p","r","i","c","e">>

N_inStock == <<"i","n","S","t","o","c","k">>

N_product == <<"p","r","o","d","u","c","t">>

N_productId == <<"p","r","o","d","u","c","t","I","d">>

N_reviews == <<"r","e","v","i","e","w","s">>

N_unmapped == <<"u","n","m","a","p","p","e","d">>

N_User == <<"U","s","e","r">>

LiteralTerms ==
  ( N_name    :> StringTerm(HTTP_E \o <<"/">> \o N_name) ) @@
  ( N_age     :> ObjectTerm(HTTP_E \o <<"/">> \o N_age, XSD_INTEGER) ) @@
  ( N_price   :> ObjectTerm(HTTP_E \o <<"/">> \o N_price, XSD_DECIMAL) ) @@
  ( N_inStock :> StringTerm(HTTP_E \o <<"/">> \o N_inStock) )

T_itemReviewed == HTTP_E \o <<"/","i","t","e","m","R","e","v","i","e","w","e","d">>

T_review == HTTP_E \o <<"/","r","e","v","i","e","w">>

\* @base with a trailing slash; User, product/reviews typed @id, a productId term
CtxA ==
  [base |-> Present(HTTP_E \o <<"/">>), vocab |-> Absent,
   terms |-> LiteralTerms @@
             ( N_User      :> StringTerm(HTTP_E \o <<"/">> \o N_User) ) @@
             ( N_product   :> ObjectTerm(T_itemReviewed, AT_ID) ) @@
             ( N_reviews   :> ObjectTerm(T_review, AT_ID) ) @@
             ( N_productId :> StringTerm(HTTP_E \o <<"/">> \o N_productId) )]

\* @base without a trailing slash, @vocab, no User term, product a bare IRI,
\* no productId term
CtxB ==
  [base |-> Present(HTTP_E), vocab |-> Present(<<"h","t","t","p",":","/","/","v","/">>),
   terms |-> LiteralTerms @@
             ( N_product :> StringTerm(T_itemReviewed) ) @@
             ( N_reviews :> ObjectTerm(T_review, AT_ID) )]

\* no @base, no @vocab, no reviews term (no inverse), no productId term
CtxC ==
  [base |-> Absent, vocab |-> Absent,
   terms |-> LiteralTerms @@
             ( N_User    :> StringTerm(HTTP_E \o <<"/">> \o N_User) ) @@
             ( N_product :> ObjectTerm(T_itemReviewed, AT_ID) )]

\* '@base': '' (an empty string)
CtxD ==
  [base |-> Present(<<>>), vocab |-> Absent,
   terms |-> LiteralTerms @@
             ( N_User    :> StringTerm(HTTP_E \o <<"/">> \o N_User) ) @@
             ( N_product :> ObjectTerm(T_itemReviewed, AT_ID) ) @@
             ( N_reviews :> ObjectTerm(T_review, AT_ID) )]

Contexts == {CtxA, CtxB, CtxC, CtxD}

S_ex_u1 == <<"e","x",":","u","1">>

S_ex_p1 == <<"e","x",":","p","1">>

\* an injection attempt: it would close the IRI and start another statement
S_injection == <<"e",">"," ","}",";","<","z">>

\* strings offered as IRIs: relative, absolute, and with characters the IRI
\* grammar forbids
IdStrings ==
  { S_ex_u1, HTTP_E \o <<"/","u">>, <<"h","t","t","p","s",":","/","/","e","/","u">>,
    <<"u",">","1">>, <<"u","<","1">>, <<"u","\n","1">>, <<"u","\r","1">>,
    <<"u"," ","1">>, <<"u","\"","1">>, <<"u","1">>, S_injection }

\* the fields input objects of several fields are built from
FieldEntries ==
  { ObjectField(N_id, StringValue(S_ex_u1)),
    ObjectField(N_name, StringValue(<<"A","l">>)),
    ObjectField(N_age, IntValue(<<"3","0">>)),
    ObjectField(N_productId, StringValue(S_ex_p1)),
    ObjectField(N_product, StringValue(S_ex_p1)),
    ObjectField(N_unmapped, StringValue(<<"x">>)) }

\* string values holding the characters that end a literal or a statement when
\* written raw: double quote, line feed, carriage return, tab, backslash,
\* closing brace and semicolon
SpecialStrings ==
  { <<"a","\"","b">>, <<"a","\n","b">>, <<"a","\r","b">>, <<"a","\t","b">>,
    <<"a","\\">>, <<"\\","\"">>, <<"\""," ","}",";"," ","<","x",">">> }

\* fields explored alone in an input object: the other value kinds, and a
\* String for a term typed xsd:integer
EdgeFields ==
  { ObjectField(N_name, NullValue),
    ObjectField(N_age, StringValue(<<"3","0">>)),
    ObjectField(N_price, FloatValue(<<"9",".","5">>)),
    ObjectField(N_inStock, BooleanValue(<<"t","r","u","e">>)),
    ObjectField(N_id, IntValue(<<"7">>)),
    ObjectField(N_name, VariableRef(N_name)),
    ObjectField(N_product, VariableRef(N_product)),
    ObjectField(N_id, VariableRef(N_id)) }

\* input objects of exactly n fields
Inputs(n) == { ObjectValue(fs) : fs \in [1..n -> FieldEntries] }

M_createUser == <<"c","r","e","a","t","e","U","s","e","r">>

M_updateUser == <<"u","p","d","a","t","e","U","s","e","r">>

M_deleteUser == <<"d","e","l","e","t","e","U","s","e","r">>

\* first root fields whose input object has n fields
CoreRoots(n) ==
  { FieldNode(M_createUser, <<Argument(N_input, in)>>) : in \in Inputs(n) }
  \cup { FieldNode(M_updateUser,
                   <<Argument(N_id, StringValue(S_ex_u1)), Argument(N_input, in)>>)
         : in \in Inputs(n) }
  \cup (IF n = 0
        THEN {FieldNode(M_deleteUser, <<Argument(N_id, StringValue(S_ex_u1))>>)}
        ELSE {})

\* further root fields whose input object has n fields
NextRoots(n) ==
  { FieldNode(<<"c","r","e","a","t","e","P","o","s","t">>, <<Argument(N_input, in)>>)
    : in \in Inputs(n) }
  \cup (IF n = 0
        THEN {FieldNode(M_deleteUser,
                        <<Argument(N_id, StringValue(<<"e","x",":","u","2">>))>>)}
        ELSE {})

\* single root fields at the edges: every id string, missing or ill-kinded
\* arguments, other field names
EdgeRoots ==
  { FieldNode(M_updateUser,
              <<Argument(N_id, StringValue(s)),
                Argument(N_input, ObjectValue(<<ObjectField(N_name, StringValue(<<"A","l">>))>>))>>)
    : s \in IdStrings }
  \cup { FieldNode(M_deleteUser, <<Argument(N_id, StringValue(s))>>) : s \in IdStrings }
  \cup { FieldNode(M_createUser,
                   <<Argument(N_input, ObjectValue(<<ObjectField(N_id, StringValue(s))>>))>>)
         : s \in IdStrings }
  \cup { FieldNode(M_createUser,
                   <<Argument(N_input,
                       ObjectValue(<<ObjectField(N_product, StringValue(s))>>))>>)
         : s \in IdStrings }
  \cup { FieldNode(M_createUser, <<Argument(N_input, ObjectValue(<<e>>))>>)
         : e \in EdgeFields }
  \cup { FieldNode(M_updateUser,
                   <<Argument(N_id, StringValue(S_ex_u1)), Argument(N_input, ObjectValue(<<e>>))>>)
         : e \in EdgeFields }
  \cup { FieldNode(M_createUser,
                   <<Argument(N_input, ObjectValue(<<ObjectField(N_name, StringValue(v))>>))>>)
         : v \in SpecialStrings }
  \cup { FieldNode(M_updateUser,
                   <<Argument(N_id, StringValue(S_ex_u1)),
                     Argument(N_input, ObjectValue(<<ObjectField(N_name, StringValue(v))>>))>>)
         : v \in SpecialStrings }
  \cup { FieldNode(m, <<>>) : m \in {M_createUser, M_updateUser, M_deleteUser} }
  \cup { FieldNode(m, <<Argument(N_id, v)>>)
         : m \in {M_updateUser, M_deleteUser},
           v \in {IntValue(<<"7">>), VariableRef(N_id)} }
  \cup { FieldNode(M_updateUser, <<Argument(N_id, StringValue(S_ex_u1))>>),
         FieldNode(M_updateUser, <<Argument(N_id, StringValue(S_ex_u1)),
                                   Argument(N_input, VariableRef(N_input))>>),
         FieldNode(M_createUser, <<Argument(N_input, VariableRef(N_input))>>),
         FieldNode(<<"c","r","e","a","t","e","u","s","e","r">>,
                   <<Argument(N_input, ObjectValue(<<>>))>>),
         FieldNode(<<"c","r","e","a","t","e">>, <<Argument(N_input, ObjectValue(<<>>))>>),
         FieldNode(<<"g","e","t","U","s","e","r">>, <<>>),
         FieldNode(<<"c","r","e","a","t","e","P","o","s","t">>,
                   <<Argument(N_input,
                       ObjectValue(<<ObjectField(N_id, StringValue(<<"u",">","1">>))>>))>>) }

\* k further root fields holding at most `budget` input fields together
RECURSIVE FurtherRoots(_, _)
FurtherRoots(k, budget) ==
  IF k = 0 THEN {<<>>}
  ELSE UNION { { <<r>> \o rest : r \in NextRoots(n), rest \in FurtherRoots(k - 1, budget - n) }
               : n \in 0..budget }

Document(op, sels) == [operation |-> op, selections |-> sels]

\* documents of two root fields at the edges: a delete followed by a delete
\* whose id is a $variable reference
EdgeDocs ==
  { Document("mutation",
             <<FieldNode(M_deleteUser, <<Argument(N_id, StringValue(S_ex_u1))>>),
               FieldNode(M_deleteUser, <<Argument(N_id, VariableRef(N_id))>>)>>) }

Docs ==
  UNION { { Document("mutation", <<r>> \o rest)
            : r \in CoreRoots(n), rest \in FurtherRoots(k, MaxFields - n) }
          : n \in 0..MaxFields, k \in 0..(MaxRootFields - 1) }
  \cup { Document("mutation", <<r>>) : r \in EdgeRoots }
  \cup EdgeDocs
  \cup { Document("query", <<r>>) : r \in CoreRoots(0) }

\* the variables maps passed to convertToSparql (by their keys)
VariableMaps == {Absent, Present(<<>>), Present(<<<<"v">>>>)}

\* convertToSparql calls: every document without variables, the edge
\* documents with each variables map
SparqlCalls ==
  { <<d, Absent>> : d \in Docs }
  \cup { <<Document("mutation", <<r>>), v>> : r \in CoreRoots(0), v \in VariableMaps }
  \cup { <<Document("mutation",
                    <<FieldNode(M_deleteUser, <<Argument(N_id, StringValue(<<"u","<","1">>))>>)>>),
           v>> : v \in VariableMaps }

\* sources of Math.random() for a document of n root fields: the draws in
\* 0..15 each root field takes, one per template character; all draws 0, or
\* the draws of one running sequence
RandomSources(n) ==
  { [i \in 1..n |-> [j \in 1..Len(UuidTemplate) |-> 0]],
    [i \in 1..n |-> [j \in 1..Len(UuidTemplate) |->
                       (7 * (j + Len(UuidTemplate) * (i - 1))) % 16]] }

\* ------------------------------------------------------------------------
\* State machine: one MutationConverter serving calls one at a time
\* ------------------------------------------------------------------------
VARIABLES
  context,    \* the converter's JSON-LD context (fixed at construction)
  pc,         \* "idle": no call in progress; "returned": a call has ended
  method,     \* the method of the last call
  mutation,   \* its document
  variables,  \* its variables map (convertToSparql)
  algebra,    \* the algebra convert returned, if any
  sparql,     \* the SPARQL text convertToSparql returned, if any
  thrown,     \* the error the call threw, if any
  client,     \* a Client: its context promise and the call of mutate or query in progress
  queryEngine, \* the Client's query engine: whether it has update, and the calls it received
  http,       \* a QueryEngineSparqlEndpoint call in progress: its timer, exchange and outcome
  parked,     \* the other calls in progress on the same QueryEngineSparqlEndpoint
  cache,      \* a QueryCache: its entries, access order, configuration and clock
  validator   \* a call of GraphQLInputValidator.validateMutationInput: its input and call stack

vars ==
  <<context, pc, method, mutation, variables, algebra, sparql, thrown, client, queryEngine, http,
    parked, cache, validator>>

\* the variables of the QueryEngineSparqlEndpoint
endpointVars == <<http, parked>>

\* the variables of the QueryCache and of the input validator
sharedVars == <<cache, validator>>

\* the variables of the Client and its query engine
clientVars == <<client, queryEngine>>

\* the variables of the MutationConverter
converterVars == <<context, pc, method, mutation, variables, algebra, sparql, thrown>>

NoDocument == Document("none", <<>>)

\* no Client is in use
NoClient == [pc |-> "none"]

\* no QueryEngineSparqlEndpoint is in use
NoEndpoint == [pc |-> "none"]

\* no QueryCache is in use
NoCache == [pc |-> "none"]

\* no call of the input validator is in progress
NoValidator == [pc |-> "none"]

\* hasUpdate: the engine has an update method; updates: the texts update was
\* called with; queries: the calls of query; outcome: how the promise of the
\* last call settled
NoQueryEngine == [hasUpdate |-> FALSE, updates |-> <<>>, queries |-> 0, outcome |-> Absent]

Init ==
  /\ context \in Contexts
  /\ pc = "idle"
  /\ method = "none"
  /\ mutation = NoDocument
  /\ variables = Absent
  /\ algebra = Absent
  /\ sparql = Absent
  /\ thrown = Absent
  /\ client = NoClient
  /\ queryEngine = NoQueryEngine
  /\ http = NoEndpoint
  /\ parked = <<>>
  /\ cache = NoCache
  /\ validator = NoValidator

Convert(doc, rnds) ==
  /\ pc = "idle"
  /\ \E r \in {convert(context, doc, rnds)} :
       /\ algebra' = IF r.ok THEN Present(r.value) ELSE Absent
       /\ thrown' = IF r.ok THEN Absent ELSE Present(r.error)
  /\ pc' = "returned"
  /\ method' = "convert"
  /\ mutation' = doc
  /\ variables' = Absent
  /\ sparql' = Absent
  /\ UNCHANGED <<context, clientVars, endpointVars, sharedVars>>

ConvertToSparql(doc, vs, rnds) ==
  /\ pc = "idle"
  /\ \E r \in {convertToSparql(context, doc, vs, rnds)} :
       /\ sparql' = IF r.ok THEN Present(r.value) ELSE Absent
       /\ thrown' = IF r.ok THEN Absent ELSE Present(r.error)
  /\ algebra' = Absent
  /\ pc' = "returned"
  /\ method' = "convertToSparql"
  /\ mutation' = doc
  /\ variables' = vs
  /\ UNCHANGED <<context, clientVars, endpointVars, sharedVars>>

\* the caller has taken the result; the converter keeps nothing of the call
Release ==
  /\ pc = "returned"
  /\ pc' = "idle"
  /\ method' = "none"
  /\ mutation' = NoDocument
  /\ variables' = Absent
  /\ algebra' = Absent
  /\ sparql' = Absent
  /\ thrown' = Absent
  /\ UNCHANGED <<context, clientVars, endpointVars, sharedVars>>

Next ==
  \/ /\ pc = "idle"
     /\ \E doc \in Docs : \E rnds \in RandomSources(Len(doc.selections)) :
          Convert(doc, rnds)
  \/ /\ pc = "idle"
     /\ \E call \in SparqlCalls :
          \E rnds \in RandomSources(Len(call[1].selections)) :
            ConvertToSparql(call[1], call[2], rnds)
  \/ Release

Spec == Init /\ [][Next]_vars

\* ------------------------------------------------------------------------
\* Errors and promise outcomes of the Client and the query engines
\* ------------------------------------------------------------------------
\* new QueryEngineError(message, code)
QueryEngineError(message, code) ==
  [name |-> "QueryEngineError", message |-> message, code |-> code]

\* a thrown value that is no Error object; text is String(value)
NonError(text) == [name |-> "NonError", message |-> text, code |-> NoCode]

\* error instanceof QueryEngineError
isQueryEngineError(error) == error.name = "QueryEngineError"

\* error instanceof Error
isError(error) == error.name # "NonError"

\* new GraphQLError(message, ..., originalError, extensions)
GraphQLError(message, originalError, extensions) ==
  [name |-> "GraphQLError", message |-> message, originalError |-> originalError,
   extensions |-> extensions]

Resolved(v) == [settled |-> "resolved", value |-> v]

Rejected(e) == [settled |-> "rejected", value |-> e]

\* what code outside the Client (the context parser, the converters of
\* queries and results, a query engine) may throw or reject with
ExternalThrown ==
  { QueryEngineError("Engine specific error", "TEST_ERROR"),
    Throw("Network error").error,
    NonError("boom") }

\* what update of a query engine resolves with
UpdateResults ==
  { [success |-> TRUE, message |-> "Update operation completed successfully."],
    [success |-> FALSE, message |-> "nothing changed"] }

UpdateOutcomes ==
  { Resolved(r) : r \in UpdateResults } \cup { Rejected(e) : e \in ExternalThrown }

\* what query of a query engine resolves with (SPARQL JSON, by its number of
\* bindings)
QueryResults == { [bindings |-> n] : n \in 0..1 }

QueryOutcomes ==
  { Resolved(r) : r \in QueryResults } \cup { Rejected(e) : e \in ExternalThrown }

\* what sparqlJsonResultsToTree does with a result: it returns the tree of the
\* result, or throws
ShapingOutcomes ==
  { Return("tree") } \cup { [ok |-> FALSE, error |-> e] : e \in ExternalThrown }

\* ------------------------------------------------------------------------
\* Explored calls of the Client
\* ------------------------------------------------------------------------
\* the context promise of the Client: parsed, or rejected by the parser
ContextPromises ==
  { Return(c) : c \in Contexts } \cup { Throw("invalid context") }

\* mutation documents given to mutate: the core documents of at most one
\* input field, documents that do not compile, and one that is no mutation
ClientDocs ==
  { Document("mutation", <<r>>) : r \in CoreRoots(0) \cup CoreRoots(1) }
  \cup { Document("mutation", <<r>>)
         : r \in { FieldNode(<<"g","e","t","U","s","e","r">>, <<>>),
                   FieldNode(M_deleteUser, <<Argument(N_id, StringValue(<<"u","<","1">>))>>),
                   FieldNode(M_deleteUser, <<Argument(N_id, VariableRef(N_id))>>),
                   FieldNode(M_createUser, <<Argument(N_input, VariableRef(N_input))>>) } }
  \cup EdgeDocs
  \cup { Document("query", <<r>>) : r \in CoreRoots(0) }

\* a pre-converted SPARQL UPDATE algebra
SomeUpdateAlgebra ==
  createCompositeUpdate(<<
    createDeleteInsert(Absent,
      Present(<<quadToAlgebraPattern(
                  quad(namedNode(HTTP_E \o <<"/","u">>), namedNode(RDF_TYPE),
                       namedNode(HTTP_E \o <<"/">> \o N_User)))>>),
      Absent)>>)

\* args of mutate and query: { query, variables } or { sparqlAlgebra, ... }
RawArgs(doc, vs) ==
  [form |-> "query", query |-> doc, variables |-> vs, sparqlAlgebra |-> Absent]

AlgebraArgs(alg) ==
  [form |-> "sparqlAlgebra", query |-> NoDocument, variables |-> Absent,
   sparqlAlgebra |-> Present(alg)]

MutateArgs ==
  { RawArgs(d, v) : d \in ClientDocs, v \in VariableMaps }
  \cup { AlgebraArgs(SomeUpdateAlgebra) }

\* query documents are compiled outside of this repository: one stands for
\* them all
QueryArgsSet ==
  { RawArgs(Document("query", <<>>), v) : v \in VariableMaps }
  \cup { AlgebraArgs(<<>>) }

\* ------------------------------------------------------------------------
\* Client.mutate and Client.query, one call at a time; every await is a step
\* ------------------------------------------------------------------------
\* client while in use:
\*   pc            "idle", "mutate:context" (awaiting this.context),
\*                 "mutate:update" (awaiting queryEngine.update),
\*                 "query:convert" (awaiting graphQlToSparql),
\*                 "query:engine" (awaiting queryEngine.query), "settled"
\*   context       the context promise made by the constructor
\*   args          the arguments of the call
\*   sparqlUpdate  the text mutate compiled
\*   outcome       how the promise of the call settled
NewClient(contextPromise) ==
  [pc |-> "idle", method |-> "none", context |-> contextPromise,
   args |-> AlgebraArgs(<<>>), sparqlUpdate |-> Absent, outcome |-> Absent]

ClientInit ==
  /\ context = CtxA
  /\ pc = "idle"
  /\ method = "none"
  /\ mutation = NoDocument
  /\ variables = Absent
  /\ algebra = Absent
  /\ sparql = Absent
  /\ thrown = Absent
  /\ \E p \in ContextPromises : client = NewClient(p)
  /\ \E u \in BOOLEAN : queryEngine = [NoQueryEngine EXCEPT !.hasUpdate = u]
  /\ http = NoEndpoint
  /\ parked = <<>>
  /\ cache = NoCache
  /\ validator = NoValidator

\* the promise of the call settles
Settle(o) == client' = [client EXCEPT !.pc = "settled", !.outcome = Present(o)]

\* mutate(args), up to `await this.context`
Mutate(args) ==
  /\ client.pc = "idle"
  /\ IF args.form = "query"
     THEN client' = [client EXCEPT !.pc = "mutate:context", !.method = "mutate", !.args = args]
     ELSE client' = [client EXCEPT
            !.pc = "settled", !.method = "mutate", !.args = args,
            !.outcome = Present(Rejected(QueryEngineError(
              "Only GraphQL mutation string input is supported for mutations in this client.",
              "INVALID_INPUT")))]
  /\ UNCHANGED <<queryEngine, converterVars, endpointVars, sharedVars>>

\* mutate that hands the engine an update before any of its checks
MutateResumedSendingFirst(rnds) ==
  /\ client.pc = "mutate:context"
  /\ client' = [client EXCEPT !.pc = "mutate:update", !.sparqlUpdate = Present(<<>>)]
  /\ queryEngine' = [queryEngine EXCEPT !.updates = Append(@, <<>>)]
  /\ UNCHANGED <<converterVars, endpointVars, sharedVars>>

\* mutate from `await this.context` to `await this.queryEngine.update(...)`
MutateResumed(rnds) ==
  /\ client.pc = "mutate:context"
  /\ IF ~client.context.ok
     THEN Settle(Rejected(client.context.error)) /\ UNCHANGED queryEngine
     ELSE IF client.args.variables.present /\ Len(client.args.variables.value) > 0
     THEN /\ Settle(Rejected(QueryEngineError(
                 "GraphQL variables in mutations are not yet fully supported.",
                 "UNSUPPORTED_FEATURE")))
          /\ UNCHANGED queryEngine
     ELSE \E r \in {convertToSparql(client.context.value, client.args.query,
                                    client.args.variables, rnds)} :
            IF ~r.ok
            THEN Settle(Rejected(r.error)) /\ UNCHANGED queryEngine
            ELSE IF ~queryEngine.hasUpdate
            THEN /\ client' = [client EXCEPT
                       !.pc = "settled", !.sparqlUpdate = Present(r.value),
                       !.outcome = Present(Rejected(QueryEngineError(
                         "Mutations are not supported by the current query engine.",
                         "UNSUPPORTED_OPERATION")))]
                 /\ UNCHANGED queryEngine
            ELSE /\ client' = [client EXCEPT !.pc = "mutate:update",
                                             !.sparqlUpdate = Present(r.value)]
                 /\ queryEngine' = [queryEngine EXCEPT !.updates = Append(@, r.value)]
  /\ UNCHANGED <<converterVars, endpointVars, sharedVars>>

\* a catch block of mutate that reports every error in the result
mutateCatchReportingAll(error) ==
  Resolved([data |-> Absent,
            errors |-> Present(<<GraphQLError(
                         "Mutation failed: " \o error.message,
                         IF isError(error) THEN Present(error) ELSE Absent,
                         [code |-> "MUTATION_ERROR"])>>)])

\* the catch block of mutate
mutateCatch(error) ==
  IF isQueryEngineError(error) THEN Rejected(error)
  ELSE Resolved([data |-> Absent,
                 errors |-> Present(<<GraphQLError(
                              "Mutation failed: " \o error.message,
                              IF isError(error) THEN Present(error) ELSE Absent,
                              [code |-> "MUTATION_ERROR"])>>)])

\* the try block of mutate once queryEngine.update has settled with o
UpdateSettled(o) ==
  /\ client.pc = "mutate:update"
  /\ IF o.settled = "resolved"
     THEN Settle(Resolved([data |-> Present([mutate |-> [success |-> TRUE, details |-> o.value]]),
                           errors |-> Absent]))
     ELSE Settle(mutateCatch(o.value))
  /\ queryEngine' = [queryEngine EXCEPT !.outcome = Present(o)]
  /\ UNCHANGED <<converterVars, endpointVars, sharedVars>>

\* the catch block of query
queryCatch(error) ==
  IF isQueryEngineError(error) THEN Rejected(error)
  ELSE Rejected(QueryEngineError("Query execution failed: " \o error.message,
                                 "EXECUTION_ERROR"))

\* query(args), up to its first await
Query(args) ==
  /\ client.pc = "idle"
  /\ IF args.form = "query"
     THEN /\ client' = [client EXCEPT !.pc = "query:convert", !.method = "query", !.args = args]
          /\ UNCHANGED queryEngine
     ELSE /\ client' = [client EXCEPT !.pc = "query:engine", !.method = "query", !.args = args]
          /\ queryEngine' = [queryEngine EXCEPT !.queries = @ + 1]
  /\ UNCHANGED <<converterVars, endpointVars, sharedVars>>

\* graphQlToSparql has settled: with the algebra (ok), or its try block threw
\* thrownValue, which its catch block wraps
GraphQlToSparqlSettled(ok, thrownValue) ==
  /\ client.pc = "query:convert"
  /\ ok => client.context.ok
  /\ IF ok
     THEN /\ client' = [client EXCEPT !.pc = "query:engine"]
          /\ queryEngine' = [queryEngine EXCEPT !.queries = @ + 1]
     ELSE /\ Settle(queryCatch(QueryEngineError(
                 "GraphQL to SPARQL conversion failed: " \o thrownValue.message,
                 "CONVERSION_ERROR")))
          /\ UNCHANGED queryEngine
  /\ UNCHANGED <<converterVars, endpointVars, sharedVars>>

\* queryEngine.query has settled with o; shaped is what sparqlJsonResultsToTree
\* does with a result: it returns the tree or throws
QuerySettled(o, shaped) ==
  /\ client.pc = "query:engine"
  /\ IF o.settled = "rejected" THEN Settle(queryCatch(o.value))
     ELSE IF shaped.ok
     THEN Settle(Resolved([data |-> Present([tree |-> o.value]), errors |-> Absent]))
     ELSE Settle(queryCatch(shaped.error))
  /\ queryEngine' = [queryEngine EXCEPT !.outcome = Present(o)]
  /\ UNCHANGED <<converterVars, endpointVars, sharedVars>>

\* the caller has taken the outcome; the next call starts afresh
ClientRelease ==
  /\ client.pc = "settled"
  /\ client' = NewClient(client.context)
  /\ queryEngine' = [queryEngine EXCEPT !.updates = <<>>, !.queries = 0, !.outcome = Absent]
  /\ UNCHANGED <<converterVars, endpointVars, sharedVars>>

ClientNext ==
  \/ \E args \in MutateArgs : Mutate(args)
  \/ \E rnds \in RandomSources(MaxRootFields) : MutateResumed(rnds)
  \/ \E o \in UpdateOutcomes : UpdateSettled(o)
  \/ \E args \in QueryArgsSet : Query(args)
  \/ \E ok \in BOOLEAN : \E e \in ExternalThrown : GraphQlToSparqlSettled(ok, e)
  \/ \E o \in QueryOutcomes : \E shaped \in ShapingOutcomes : QuerySettled(o, shaped)
  \/ ClientRelease

ClientSpec == ClientInit /\ [][ClientNext]_vars

\* ------------------------------------------------------------------------
\* QueryEngineSparqlEndpoint (src/engine/QueryEngineSparqlEndpoint.ts)
\* ------------------------------------------------------------------------
\* defaultOptions.timeout, in milliseconds
DEFAULT_TIMEOUT == 30000

\* defaultOptions.maxResults
DEFAULT_MAX_RESULTS == 1000

\* an option of Partial<QueryEngineOptions> that is not given
NotGiven == [present |-> FALSE, value |-> 0]

\* { ...this.defaultOptions, ...options }: options gives timeout and
\* maxResults, each NotGiven or Present(n)
mergedOptions(options) ==
  [timeout |-> IF options.timeout.present THEN options.timeout.value ELSE DEFAULT_TIMEOUT,
   maxResults |-> IF options.maxResults.present THEN options.maxResults.value
                  ELSE DEFAULT_MAX_RESULTS]

\* the error fetch and the body readers reject with once the signal is aborted
AbortError ==
  [name |-> "AbortError", message |-> "This operation was aborted", code |-> NoCode]

\* response.ok
responseOk(status) == status \in 200..299

\* a parsed JSON body: kind "object" or not; head, head.vars, results and
\* results.bindings are Present when they are there (vars and bindings: when
\* they are arrays)
JsonObject(head, results) == [kind |-> "object", head |-> head, results |-> results]

JsonNull == [kind |-> "null", head |-> Absent, results |-> Absent]

SparqlJson(headVars, bindings) ==
  JsonObject(Present([vars |-> Present(headVars)]), Present([bindings |-> Present(bindings)]))

isSparqlQueryResult(result) ==
  IF result.kind # "object" THEN FALSE
  ELSE IF ~result.head.present THEN FALSE
  ELSE IF ~result.head.value.vars.present THEN FALSE
  ELSE IF ~result.results.present THEN FALSE
  ELSE IF ~result.results.value.bindings.present THEN FALSE
  ELSE TRUE

\* result.results.bindings.slice(0, maxResults) when maxResults is truthy and
\* exceeded
limitResults(result, maxResults) ==
  IF maxResults # 0 /\ Len(result.results.value.bindings.value) > maxResults
  THEN [result EXCEPT !.results.value.bindings.value = SubSeq(@, 1, maxResults)]
  ELSE result

\* the catch blocks of query and update
endpointCatch(op, timeout, error) ==
  IF isQueryEngineError(error) THEN error
  ELSE IF isError(error)
  THEN IF error.name = "AbortError"
       THEN QueryEngineError(
              (IF op = "query" THEN "Query timed out after "
               ELSE "Update operation timed out after ") \o ToString(timeout) \o "ms",
              "TIMEOUT")
       ELSE QueryEngineError(
              (IF op = "query" THEN "Query execution failed: "
               ELSE "Update operation failed: ") \o error.message,
              "EXECUTION_ERROR")
  ELSE QueryEngineError(
         IF op = "query" THEN "Unknown error occurred during query execution"
         ELSE "Unknown error occurred during update operation",
         "UNKNOWN_ERROR")

\* the error thrown for a response that is not ok, its text read
httpError(op, response, errorText) ==
  QueryEngineError(
    (IF op = "query" THEN "SPARQL query failed: " ELSE "SPARQL UPDATE failed: ")
      \o response.statusText \o " - " \o errorText,
    "HTTP_" \o ToString(response.status))

\* ------------------------------------------------------------------------
\* Explored calls and endpoint behaviours
\* ------------------------------------------------------------------------
MaxBindings == 2

EndpointOptions ==
  { [timeout |-> t, maxResults |-> m] :
      t \in {NotGiven, Present(100)}, m \in {NotGiven, Present(0), Present(1)} }

\* toSparql(sparqlAlgebra) of query: the text, or the serializer throws
SerializerOutcomes == { Return("SELECT"), Throw("Unknown operation") }

\* the responses fetch resolves with, by status line
Responses ==
  { [status |-> 200, statusText |-> "OK"],
    [status |-> 204, statusText |-> "No Content"],
    [status |-> 404, statusText |-> "Not Found"],
    [status |-> 500, statusText |-> "Internal Server Error"] }

\* what fetch rejects with for other reasons than the abort, and what a body
\* reader rejects with (response.json(): also a SyntaxError)
TransportThrown == { Throw("Network timeout").error, NonError("string error") }

FetchOutcomes ==
  { Resolved(r) : r \in Responses } \cup { Rejected(e) : e \in TransportThrown }

\* a text body is [text |-> the text read]
TextOutcomes == { Resolved([text |-> "Bad request"]) } \cup { Rejected(e) : e \in TransportThrown }

Bindings(n) == [i \in 1..n |-> [s |-> i]]

JsonBodies ==
  { SparqlJson(<<"s">>, Bindings(n)) : n \in 0..MaxBindings }
  \cup { JsonNull,
         JsonObject(Absent, Present([bindings |-> Present(<<>>)])),
         JsonObject(Present([vars |-> Absent]), Present([bindings |-> Present(<<>>)])),
         JsonObject(Present([vars |-> Present(<<>>)]), Absent),
         JsonObject(Present([vars |-> Present(<<>>)]), Present([bindings |-> Absent])) }

JsonOutcomes == { Resolved(b) : b \in JsonBodies } \cup { Rejected(e) : e \in TransportThrown }

\* ------------------------------------------------------------------------
\* QueryEngineSparqlEndpoint.query and update, one call at a time; every
\* await is a step, and so is the passing of the timeout
\* ------------------------------------------------------------------------
\* http while in use:
\*   pc        "idle", "fetch" (awaiting fetch), "text" (awaiting
\*             response.text()), "json" (awaiting response.json()), "settled"
\*   timer     the timeout set by setTimeout: "unset", "armed", "cleared" (by
\*             clearTimeout) or "fired" (its callback ran controller.abort())
\*   aborted   controller.signal.aborted
\*   elapsed   the timeout of the call has passed since it started
\*   posts     the number of times the call has called fetch
\*   response  the response fetch resolved with
\*   body      the parsed body response.json() resolved with
\*   caught    the value the catch block caught
\*   outcome   how the promise of the call settled
NewEndpoint ==
  [pc |-> "idle", method |-> "none", options |-> mergedOptions([timeout |-> NotGiven, maxResults |-> NotGiven]),
   timer |-> "unset", aborted |-> FALSE, elapsed |-> FALSE, posts |-> 0, response |-> Absent,
   body |-> Absent, caught |-> Absent, outcome |-> Absent]

EndpointInit ==
  /\ context = CtxA
  /\ pc = "idle"
  /\ method = "none"
  /\ mutation = NoDocument
  /\ variables = Absent
  /\ algebra = Absent
  /\ sparql = Absent
  /\ thrown = Absent
  /\ client = NoClient
  /\ queryEngine = NoQueryEngine
  /\ http = NewEndpoint
  /\ parked = <<>>
  /\ cache = NoCache
  /\ validator = NoValidator

\* the catch block caught error: the call rejects with what it maps to
Caught(error) ==
  http' = [http EXCEPT
             !.pc = "settled", !.caught = Present(error),
             !.outcome = Present(Rejected(endpointCatch(http.method, http.options.timeout, error)))]

\* query(sparqlAlgebra, options) up to `await fetch(...)`; serialized is what
\* toSparql(sparqlAlgebra) does, before the try block
EndpointQuery(serialized, options) ==
  /\ http.pc = "idle"
  /\ IF serialized.ok
     THEN http' = [http EXCEPT !.pc = "fetch", !.method = "query",
                               !.options = mergedOptions(options), !.timer = "armed",
                               !.posts = @ + 1]
     ELSE http' = [http EXCEPT !.pc = "settled", !.method = "query",
                               !.options = mergedOptions(options),
                               !.outcome = Present(Rejected(serialized.error))]
  /\ UNCHANGED <<converterVars, clientVars, parked, sharedVars>>

\* update(sparqlUpdate, options) up to `await fetch(...)`
EndpointUpdate(options) ==
  /\ http.pc = "idle"
  /\ http' = [http EXCEPT !.pc = "fetch", !.method = "update",
                          !.options = mergedOptions(options), !.timer = "armed",
                          !.posts = @ + 1]
  /\ UNCHANGED <<converterVars, clientVars, parked, sharedVars>>

\* the timeout of the call passes; a timer still armed runs its callback,
\* controller.abort()
TimeoutElapses ==
  /\ http.pc \in {"fetch", "text", "json"}
  /\ ~http.elapsed
  /\ http' = [http EXCEPT !.elapsed = TRUE,
                          !.timer = IF @ = "armed" THEN "fired" ELSE @,
                          !.aborted = @ \/ http.timer = "armed"]
  /\ UNCHANGED <<converterVars, clientVars, parked, sharedVars>>

\* fetch rejects with the AbortError of the aborted signal
FetchAborted ==
  /\ http.pc = "fetch"
  /\ http.aborted
  /\ Caught(AbortError)
  /\ UNCHANGED <<converterVars, clientVars, parked, sharedVars>>

\* fetch settles with o before any abort: a rejection goes to the catch
\* block; a response clears the timer, and then its text is read when it is
\* not ok, its JSON when it answers a query, and an update resolves
FetchSettled(o) ==
  /\ http.pc = "fetch"
  /\ ~http.aborted
  /\ IF o.settled = "rejected" THEN Caught(o.value)
     ELSE IF ~responseOk(o.value.status)
     THEN http' = [http EXCEPT !.pc = "text", !.timer = "cleared", !.response = Present(o.value)]
     ELSE IF http.method = "query"
     THEN http' = [http EXCEPT !.pc = "json", !.timer = "cleared", !.response = Present(o.value)]
     ELSE http' = [http EXCEPT
                     !.pc = "settled", !.timer = "cleared", !.response = Present(o.value),
                     !.outcome = Present(Resolved(
                       [success |-> TRUE,
                        message |-> "Update operation completed successfully."]))]
  /\ UNCHANGED <<converterVars, clientVars, parked, sharedVars>>

\* response.text() of a response that is not ok settles with o
TextSettled(o) ==
  /\ http.pc = "text"
  /\ IF o.settled = "rejected" THEN Caught(o.value)
     ELSE Caught(httpError(http.method, http.response.value, o.value.text))
  /\ UNCHANGED <<converterVars, clientVars, parked, sharedVars>>

\* response.json() of an ok response to a query settles with o
JsonSettled(o) ==
  /\ http.pc = "json"
  /\ IF o.settled = "rejected" THEN Caught(o.value)
     ELSE IF ~isSparqlQueryResult(o.value)
     THEN http' = [http EXCEPT
                     !.pc = "settled", !.body = Present(o.value),
                     !.caught = Present(QueryEngineError("Invalid SPARQL JSON response structure",
                                                         "INVALID_RESPONSE_FORMAT")),
                     !.outcome = Present(Rejected(endpointCatch(
                       http.method, http.options.timeout,
                       QueryEngineError("Invalid SPARQL JSON response structure",
                                        "INVALID_RESPONSE_FORMAT"))))]
     ELSE http' = [http EXCEPT
                     !.pc = "settled", !.body = Present(o.value),
                     !.outcome = Present(Resolved(limitResults(o.value, http.options.maxResults)))]
  /\ UNCHANGED <<converterVars, clientVars, parked, sharedVars>>

\* the caller has taken the outcome; the engine keeps nothing of the call
EndpointRelease ==
  /\ http.pc = "settled"
  /\ http' = NewEndpoint
  /\ UNCHANGED <<converterVars, clientVars, parked, sharedVars>>

EndpointNext ==
  \/ \E serialized \in SerializerOutcomes : \E options \in EndpointOptions :
       EndpointQuery(serialized, options)
  \/ \E options \in EndpointOptions : EndpointUpdate(options)
  \/ TimeoutElapses
  \/ FetchAborted
  \/ \E o \in FetchOutcomes : FetchSettled(o)
  \/ \E o \in TextOutcomes : TextSettled(o)
  \/ \E o \in JsonOutcomes : JsonSettled(o)
  \/ EndpointRelease

EndpointSpec == EndpointInit /\ [][EndpointNext]_vars

\* the clock runs on, and the runtime delivers the abort to a pending fetch;
\* nothing obliges the endpoint to answer
FairEndpointSpec ==
  EndpointSpec /\ WF_vars(TimeoutElapses) /\ WF_vars(FetchAborted)

\* ------------------------------------------------------------------------
\* Concurrent calls on one QueryEngineSparqlEndpoint: the instance keeps the
\* two URLs and the default options, all read-only; the controller, the
\* timer, the response and the result of a call are locals of that call.
\* http is the call the event loop is running, parked holds the others.
\* ------------------------------------------------------------------------
MaxParked == 1

ConcurrentInit ==
  /\ context = CtxA
  /\ pc = "idle"
  /\ method = "none"
  /\ mutation = NoDocument
  /\ variables = Absent
  /\ algebra = Absent
  /\ sparql = Absent
  /\ thrown = Absent
  /\ client = NoClient
  /\ queryEngine = NoQueryEngine
  /\ http = NewEndpoint
  /\ parked = [i \in 1..MaxParked |-> NewEndpoint]
  /\ cache = NoCache
  /\ validator = NoValidator

\* Resume on an instance that keeps one AbortController for all its calls
ResumeSharingController(i) ==
  /\ http' = [parked[i] EXCEPT !.aborted = @ \/ http.aborted]
  /\ parked' = [parked EXCEPT ![i] = http]
  /\ UNCHANGED <<converterVars, clientVars, sharedVars>>

\* at an await, or between calls, the event loop turns to the i-th other
\* call, with the locals of that call
Resume(i) ==
  /\ http' = parked[i]
  /\ parked' = [parked EXCEPT ![i] = http]
  /\ UNCHANGED <<converterVars, clientVars, sharedVars>>

\* the options and the bodies of the concurrent calls
ConcurrentOptions == { [timeout |-> Present(100), maxResults |-> Present(1)] }

ConcurrentJsonOutcomes ==
  { Resolved(SparqlJson(<<"s">>, Bindings(MaxBindings))), Resolved(JsonNull) }
  \cup { Rejected(e) : e \in TransportThrown }

\* every caller makes one call and keeps its outcome
ConcurrentNext ==
  \/ \E serialized \in SerializerOutcomes : \E options \in ConcurrentOptions :
       EndpointQuery(serialized, options)
  \/ \E options \in ConcurrentOptions : EndpointUpdate(options)
  \/ TimeoutElapses
  \/ FetchAborted
  \/ \E o \in FetchOutcomes : FetchSettled(o)
  \/ \E o \in TextOutcomes : TextSettled(o)
  \/ \E o \in ConcurrentJsonOutcomes : JsonSettled(o)
  \/ \E i \in 1..MaxParked : Resume(i)

ConcurrentSpec == ConcurrentInit /\ [][ConcurrentNext]_vars

\* ------------------------------------------------------------------------
\* QueryCache: an LRU cache with a time to live per entry. The Map of
\* entries is a function on the keys (its iteration order decides nothing);
\* the timestamp of an entry is left out, nothing reads it.
\* ------------------------------------------------------------------------
\* the defaults and the minimum of the constructor and of set
DEFAULT_MAX_ENTRIES == 1000

DEFAULT_TTL == 300000

MIN_TTL == 1000

\* Math.max
max(a, b) == IF a >= b THEN a ELSE b

\* the keys and values of the explored calls; undefined is what get returns
\* on a miss
Keys == {"k1", "k2", "k3"}

Values == {"v1", "v2"}

undefined == [present |-> FALSE, value |-> "undefined"]

\* no entry under a key, and a CacheEntry
NoEntry == [present |-> FALSE, value |-> "undefined", expiresAt |-> 0]

CacheEntry(value, expiresAt) == [present |-> TRUE, value |-> value, expiresAt |-> expiresAt]

\* `n || d` on an optional number: d when n is not given or is 0
orDefault(n, d) == IF n.present /\ n.value # 0 THEN n.value ELSE d

\* the constructor; now is the reading of Date.now(), last the last call
\* with its value (set) or what it returned (get). Three fields keep the
\* history of the calls and are no part of the object: written has under
\* each key the value of its last set, or undefined when the key was never
\* set or was deleted or cleared since; due has, for a key with an entry, the
\* time at which the time to live asked for by its set ends; recency lists the keys that have an
\* entry, the least recently accessed first, an access being a set of the
\* key or a get that returned its value
NewQueryCache(config) ==
  [pc |-> "ready",
   maxEntries |-> max(1, orDefault(config.maxEntries, DEFAULT_MAX_ENTRIES)),
   defaultTtl |-> max(MIN_TTL, orDefault(config.defaultTtl, DEFAULT_TTL)),
   entries |-> [k \in Keys |-> NoEntry],
   accessOrder |-> <<>>,
   now |-> 0,
   last |-> [op |-> "new", key |-> "", result |-> undefined],
   written |-> [k \in Keys |-> undefined],
   due |-> [k \in Keys |-> 0],
   recency |-> <<>>]

\* this.cache.size
size(c) == Cardinality({k \in Keys : c.entries[k].present})

isExpired(c, entry) == c.now > entry.expiresAt

\* accessOrder.indexOf(key), 0 when it is not there
indexOf(order, key) ==
  IF \E i \in 1..Len(order) : order[i] = key
  THEN CHOOSE i \in 1..Len(order) :
         order[i] = key /\ \A j \in 1..(i - 1) : order[j] # key
  ELSE 0

\* accessOrder.splice(index, 1) when the key is there
spliced(order, key) ==
  IF indexOf(order, key) = 0 THEN order
  ELSE SubSeq(order, 1, indexOf(order, key) - 1)
         \o SubSeq(order, indexOf(order, key) + 1, Len(order))

delete(c, key) ==
  [c EXCEPT !.entries[key] = NoEntry, !.accessOrder = spliced(@, key)]

\* updateAccessOrder that leaves a key that is in the order where it is
updateAccessOrderOnce(c, key) ==
  IF indexOf(c.accessOrder, key) # 0 THEN c
  ELSE [c EXCEPT !.accessOrder = Append(@, key)]

updateAccessOrder(c, key) ==
  [c EXCEPT !.accessOrder = Append(spliced(@, key), key)]

evictOldest(c) ==
  IF Len(c.accessOrder) > 0 THEN delete(c, c.accessOrder[1]) ELSE c

\* set on the cache as the eviction check left it
setEntry(c, key, value, ttl) ==
  updateAccessOrder(
    [c EXCEPT !.entries[key] =
       CacheEntry(value, c.now + max(MIN_TTL, orDefault(ttl, c.defaultTtl)))],
    key)

\* set without the eviction check
setWithoutEviction(c, key, value, ttl) == setEntry(c, key, value, ttl)

set(c, key, value, ttl) ==
  setEntry(IF size(c) >= c.maxEntries THEN evictOldest(c) ELSE c, key, value, ttl)

\* get that answers from an entry whatever its key
getAnyEntry(c, key) ==
  IF size(c) = 0
  THEN [c EXCEPT !.last = [op |-> "get", key |-> key, result |-> undefined]]
  ELSE [c EXCEPT
          !.last = [op |-> "get", key |-> key,
                    result |-> Present(c.entries[c.accessOrder[1]].value)]]

\* get: the cache after the call, with what the call returned in last
get(c, key) ==
  IF ~c.entries[key].present
  THEN [c EXCEPT !.last = [op |-> "get", key |-> key, result |-> undefined]]
  ELSE IF isExpired(c, c.entries[key])
  THEN [delete(c, key) EXCEPT !.last = [op |-> "get", key |-> key, result |-> undefined]]
  ELSE [updateAccessOrder(c, key) EXCEPT
          !.last = [op |-> "get", key |-> key, result |-> Present(c.entries[key].value)]]

clear(c) == [c EXCEPT !.entries = [k \in Keys |-> NoEntry], !.accessOrder = <<>>]

getStats(c) == [size |-> size(c), maxEntries |-> c.maxEntries, defaultTtl |-> c.defaultTtl]

\* cleanup: delete of every expired entry
cleanup(c) ==
  [c EXCEPT
     !.entries = [k \in Keys |-> IF @[k].present /\ isExpired(c, @[k]) THEN NoEntry ELSE @[k]],
     !.accessOrder = SelectSeq(@, LAMBDA k : ~(c.entries[k].present /\ isExpired(c, c.entries[k])))]

\* the explored configurations, times to live and clock
MaxNow == 2000

Advances == {1000}

CacheConfigs ==
  { [maxEntries |-> NotGiven, defaultTtl |-> NotGiven],
    [maxEntries |-> Present(0), defaultTtl |-> NotGiven],
    [maxEntries |-> Present(0 - 1), defaultTtl |-> Present(1000)],
    [maxEntries |-> Present(2), defaultTtl |-> NotGiven],
    [maxEntries |-> Present(2), defaultTtl |-> Present(500)] }

Ttls == {NotGiven, Present(500)}

CacheInit ==
  /\ context = CtxA
  /\ pc = "idle"
  /\ method = "none"
  /\ mutation = NoDocument
  /\ variables = Absent
  /\ algebra = Absent
  /\ sparql = Absent
  /\ thrown = Absent
  /\ client = NoClient
  /\ queryEngine = NoQueryEngine
  /\ http = NoEndpoint
  /\ parked = <<>>
  /\ cache \in { NewQueryCache(config) : config \in CacheConfigs }
  /\ validator = NoValidator

\* the keys of order that have an entry in c, and those keys after an
\* access to key
StillHeld(order, c) == SelectSeq(order, LAMBDA k : c.entries[k].present)

Accessed(order, c, key) ==
  Append(SelectSeq(StillHeld(order, c), LAMBDA k : k # key), key)

\* the ends of the times to live of the keys that have an entry in c
StillDue(due, c) == [k \in Keys |-> IF c.entries[k].present THEN due[k] ELSE 0]

CacheSet(key, value, ttl) ==
  /\ \E c \in {set(cache, key, value, ttl)} :
       cache' = [c EXCEPT
                   !.last = [op |-> "set", key |-> key, result |-> Present(value)],
                   !.written[key] = Present(value),
                   !.due = [StillDue(@, c) EXCEPT
                              ![key] = cache.now + (IF ttl.present THEN ttl.value
                                                    ELSE cache.defaultTtl)],
                   !.recency = Accessed(@, c, key)]
  /\ UNCHANGED <<converterVars, clientVars, endpointVars, validator>>

CacheGet(key) ==
  /\ \E c \in {get(cache, key)} :
       cache' = [c EXCEPT
                   !.due = StillDue(@, c),
                   !.recency = IF c.last.result = undefined THEN StillHeld(@, c)
                               ELSE Accessed(@, c, key)]
  /\ UNCHANGED <<converterVars, clientVars, endpointVars, validator>>

CacheDelete(key) ==
  /\ \E c \in {delete(cache, key)} :
       cache' = [c EXCEPT
                   !.last = [op |-> "delete", key |-> key, result |-> undefined],
                   !.written[key] = undefined,
                   !.due = StillDue(@, c),
                   !.recency = StillHeld(@, c)]
  /\ UNCHANGED <<converterVars, clientVars, endpointVars, validator>>

CacheClear ==
  /\ cache' = [clear(cache) EXCEPT
                 !.last = [op |-> "clear", key |-> "", result |-> undefined],
                 !.written = [k \in Keys |-> undefined],
                 !.due = [k \in Keys |-> 0],
                 !.recency = <<>>]
  /\ UNCHANGED <<converterVars, clientVars, endpointVars, validator>>

\* the callback of the setInterval of the constructor
CacheCleanup ==
  /\ \E c \in {cleanup(cache)} :
       cache' = [c EXCEPT
                   !.last = [op |-> "cleanup", key |-> "", result |-> undefined],
                   !.due = StillDue(@, c),
                   !.recency = StillHeld(@, c)]
  /\ UNCHANGED <<converterVars, clientVars, endpointVars, validator>>

\* time passes
Tick(ms) ==
  /\ cache.now + ms <= MaxNow
  /\ cache' = [cache EXCEPT !.now = @ + ms,
                            !.last = [op |-> "tick", key |-> "", result |-> undefined]]
  /\ UNCHANGED <<converterVars, clientVars, endpointVars, validator>>

CacheNext ==
  \/ \E key \in Keys : \E value \in Values : \E ttl \in Ttls : CacheSet(key, value, ttl)
  \/ \E key \in Keys : CacheGet(key)
  \/ \E key \in Keys : CacheDelete(key)
  \/ CacheClear
  \/ CacheCleanup
  \/ \E ms \in Advances : Tick(ms)

CacheSpec == CacheInit /\ [][CacheNext]_vars

\* ------------------------------------------------------------------------
\* GraphQLInputValidator.validateMutationInput: the recursive walk over an
\* input, one step per field or array item visited. The input is a graph of
\* objects: heap gives the fields of each object, a value of kind "ref"
\* refers to an object of the heap, so that an object can contain itself.
\* IriValidator.validateIri is taken by its verdict, carried by the string.
\* ------------------------------------------------------------------------
\* the call stack of the engine holds StackLimit calls of the validator; one
\* more throws a RangeError
StackLimit == 5

\* the objects of the explored inputs
Nodes == {1, 2}

Value(kind, valid, node, items) ==
  [kind |-> kind, valid |-> valid, node |-> node, items |-> items]

StringOf(valid) == Value("string", valid, 0, <<>>)

Ref(n) == Value("ref", TRUE, n, <<>>)

ArrayOf(items) == Value("array", TRUE, 0, items)

DateValue == Value("date", TRUE, 0, <<>>)

NullInput == Value("null", TRUE, 0, <<>>)

Field(key, value) == [key |-> key, value |-> value]

\* key.toLowerCase().includes('id')
isIdKey(key) ==
  \E i \in 1..(Len(key) - 1) : SubSeq(toLowerCase(key), i, i + 1) = <<"i", "d">>

ValidationError(message, wrapped) ==
  [name |-> "ValidationError", message |-> message, code |-> "VALIDATION_ERROR",
   wrapped |-> wrapped]

\* what the engine throws when the call stack is exhausted; it is no
\* ValidationError, so every catch block on the way rethrows it as it is
RangeError ==
  [name |-> "RangeError", message |-> "Maximum call stack size exceeded", code |-> NoCode,
   wrapped |-> 0]

\* the fields an object of the explored inputs can have: the first under a
\* key that holds "id" or not, the second a child
FirstFields ==
  { Field(key, value) :
      key \in { <<"I", "d">>, <<"n", "a", "m", "e">> },
      value \in { StringOf(TRUE), StringOf(FALSE) } }

SecondFields ==
  { Field(<<"c", "h", "i", "l", "d">>, value) :
      value \in { StringOf(TRUE), DateValue, Ref(1), Ref(2),
                  ArrayOf(<<StringOf(TRUE), Ref(1)>>), ArrayOf(<<Ref(2), DateValue>>),
                  ArrayOf(<<ArrayOf(<<>>)>>) } }

Objects == { <<f, g>> : f \in FirstFields, g \in SecondFields }

Heaps == [Nodes -> Objects]

\* validateMutationInput is called with the object 1 of a heap, or with what
\* is no object of fields
ValidatorInputs == { Ref(1), NullInput, StringOf(TRUE), ArrayOf(<<>>), DateValue }

\* a call of validateMutationInput(object n) on the stack: the field it is
\* at and, in an array, the item
Frame(n) == [node |-> n, field |-> 1, item |-> 1]

NewValidator ==
  [pc |-> "idle", heap |-> [n \in Nodes |-> <<>>], input |-> NullInput, stack |-> <<>>,
   outcome |-> Absent]

ValidatorInit ==
  /\ context = CtxA
  /\ pc = "idle"
  /\ method = "none"
  /\ mutation = NoDocument
  /\ variables = Absent
  /\ algebra = Absent
  /\ sparql = Absent
  /\ thrown = Absent
  /\ client = NoClient
  /\ queryEngine = NoQueryEngine
  /\ http = NoEndpoint
  /\ parked = <<>>
  /\ cache = NoCache
  /\ validator = NewValidator

\* the call ends throwing error from the innermost call: each caller on the
\* stack wraps a ValidationError into a new one and rethrows anything else
Throws(error) ==
  validator' = [validator EXCEPT
                  !.pc = "returned", !.stack = <<>>,
                  !.outcome = Present([ok |-> FALSE,
                                       error |-> IF error.name = "ValidationError"
                                                 THEN ValidationError(error.message,
                                                                      Len(validator.stack) - 1)
                                                 ELSE error])]

\* a nested call validateMutationInput(object n)
CallsNested(n) ==
  IF Len(validator.stack) >= StackLimit THEN Throws(RangeError)
  ELSE validator' = [validator EXCEPT !.stack = Append(@, Frame(n))]

\* the innermost call goes on with its next field, or its next array item
NextField ==
  validator' = [validator EXCEPT
                  !.stack[Len(validator.stack)].field = @ + 1,
                  !.stack[Len(validator.stack)].item = 1]

NextItem ==
  validator' = [validator EXCEPT !.stack[Len(validator.stack)].item = @ + 1]

\* validateMutationInput(input) up to its first field
ValidateMutationInput(heap, input) ==
  /\ validator.pc = "idle"
  /\ IF input.kind = "ref"
     THEN validator' = [validator EXCEPT !.pc = "walking", !.heap = heap, !.input = input,
                                         !.stack = <<Frame(input.node)>>]
     ELSE IF input.kind = "date"
     THEN validator' = [validator EXCEPT !.pc = "returned", !.heap = heap, !.input = input,
                                         !.outcome = Present([ok |-> TRUE])]
     ELSE validator' = [validator EXCEPT
                          !.pc = "returned", !.heap = heap, !.input = input,
                          !.outcome = Present([ok |-> FALSE,
                                               error |-> ValidationError(
                                                 "Invalid input: must be a non-null object", 0)])]
  /\ UNCHANGED <<converterVars, clientVars, endpointVars, cache>>

\* the innermost call has no field left and returns: the walk ends, or its
\* caller goes on after the value it passed
Returns ==
  /\ validator.pc = "walking"
  /\ \E top \in {validator.stack[Len(validator.stack)]} :
       /\ top.field > Len(validator.heap[top.node])
       /\ IF Len(validator.stack) = 1
          THEN validator' = [validator EXCEPT !.pc = "returned", !.stack = <<>>,
                                              !.outcome = Present([ok |-> TRUE])]
          ELSE \E caller \in {validator.stack[Len(validator.stack) - 1]} :
                 validator' =
                   [validator EXCEPT
                      !.stack =
                        Append(SubSeq(@, 1, Len(@) - 2),
                               IF validator.heap[caller.node][caller.field].value.kind = "array"
                               THEN [caller EXCEPT !.item = @ + 1]
                               ELSE [caller EXCEPT !.field = @ + 1, !.item = 1])]
  /\ UNCHANGED <<converterVars, clientVars, endpointVars, cache>>

\* the innermost call visits its current field, in an array its current item
Visits ==
  /\ validator.pc = "walking"
  /\ \E top \in {validator.stack[Len(validator.stack)]} :
       /\ top.field <= Len(validator.heap[top.node])
       /\ \E f \in {validator.heap[top.node][top.field]} :
            IF f.value.kind = "string"
            THEN IF isIdKey(f.key) /\ ~f.value.valid
                 THEN Throws(ValidationError("Invalid IRI in field", 0))
                 ELSE NextField
            ELSE IF f.value.kind = "array"
            THEN IF top.item > Len(f.value.items) THEN NextField
                 ELSE IF f.value.items[top.item].kind = "ref"
                 THEN CallsNested(f.value.items[top.item].node)
                 ELSE IF f.value.items[top.item].kind = "array"
                 THEN Throws(ValidationError("Invalid input: must be a non-null object", 0))
                 ELSE NextItem
            ELSE IF f.value.kind = "ref" THEN CallsNested(f.value.node)
            ELSE IF f.value.kind = "date"
            THEN Throws(ValidationError("Invalid value type at key", 0))
            ELSE NextField
  /\ UNCHANGED <<converterVars, clientVars, endpointVars, cache>>

\* the caller has the outcome
ValidatorRelease ==
  /\ validator.pc = "returned"
  /\ validator' = NewValidator
  /\ UNCHANGED <<converterVars, clientVars, endpointVars, cache>>

ValidatorNext ==
  \/ \E heap \in Heaps : \E input \in ValidatorInputs : ValidateMutationInput(heap, input)
  \/ Returns
  \/ Visits
  \/ ValidatorRelease

ValidatorSpec == ValidatorInit /\ [][ValidatorNext]_vars

\* ------------------------------------------------------------------------
\* Vocabulary of the properties
\* ------------------------------------------------------------------------
FirstRoot == mutation.selections[1]

\* the operation kind a root field name stands for
RootKind(node) ==
  CASE startsWith(node.name, <<"c","r","e","a","t","e">>) -> "create"
    [] startsWith(node.name, <<"u","p","d","a","t","e">>) -> "update"
    [] startsWith(node.name, <<"d","e","l","e","t","e">>) -> "delete"
    [] OTHER -> "other"

\* the fields of the `input` object of a root field (none when it has no
\* input object)
InputFields(node) ==
  LET a == findByName(node.arguments, N_input)
  IN IF a = 0 THEN <<>>
     ELSE IF node.arguments[a].value.kind # "ObjectValue" THEN <<>>
     ELSE node.arguments[a].value.fields

HasInputObject(node) ==
  LET a == findByName(node.arguments, N_input)
  IN a # 0 /\ node.arguments[a].value.kind = "ObjectValue"

HasStringId(node) ==
  LET i == findByName(node.arguments, N_id)
  IN i # 0 /\ node.arguments[i].value.kind = "StringValue"

IdArgument(node) == node.arguments[findByName(node.arguments, N_id)].value.value

\* a call of convert on a mutation document has ended
ConvertEnded == pc = "returned" /\ method = "convert" /\ mutation.operation = "mutation"

\* convert has returned the algebra of a mutation of the given kind
Compiled(kind) == ConvertEnded /\ algebra.present /\ RootKind(FirstRoot) = kind

TheUpdate == algebra.value.updates[1]

Pattern(s, p, o) == quadToAlgebraPattern(quad(s, p, o))

IsVariable(t) == t.termType = "Variable"

VariablesOf(patterns) ==
  { patterns[i].subject : i \in { j \in 1..Len(patterns) : IsVariable(patterns[j].subject) } }
  \cup { patterns[i].predicate : i \in { j \in 1..Len(patterns) : IsVariable(patterns[j].predicate) } }
  \cup { patterns[i].object : i \in { j \in 1..Len(patterns) : IsVariable(patterns[j].object) } }

\* the disallowed set of the IRI contract: the characters up to U+0020
\* (here line feed, carriage return, tab and space), angle brackets, double
\* quote, braces, bar, backslash and caret (the backtick of the contract
\* occurs in no string explored here)
DisallowedIriChars == {"\n", "\r", "\t", " ", "<", ">", "\"", "{", "}", "|", "\\", "^"}

HasDisallowedChar(v) == \E i \in 1..Len(v) : v[i] \in DisallowedIriChars

\* type_iri(Entity): exact name, then capitalized name, then @vocab + name
ClaimedTypeIri(entity) ==
  IF entity \in DOMAIN context.terms THEN context.terms[entity].id
  ELSE IF capitalize(entity) \in DOMAIN context.terms
       THEN context.terms[capitalize(entity)].id
       ELSE context.vocab.value \o entity

\* ------------------------------------------------------------------------
\* C1: every successful create compilation, whatever further root fields
\* the document holds, has exactly one rdf:type pattern in its insert list,
\* and its object is the type IRI of the entity.
\* ------------------------------------------------------------------------
C1_ExactlyOneTypeTriple ==
  Compiled("create") =>
    LET ins == TheUpdate.insert.value
        typed == { i \in 1..Len(ins) : ins[i].predicate = namedNode(RDF_TYPE) }
    IN /\ Cardinality(typed) = 1
       /\ \A i \in typed :
            ins[i].object = namedNode(ClaimedTypeIri(substring(FirstRoot.name, 6)))

\* ------------------------------------------------------------------------
\* C2: in a successful create compilation every pattern is about one
\* subject: expand_iri(input.id) when the input has a string id, else one
\* minted urn:uuid: IRI of 36 characters of [0-9a-f-]; forward patterns have
\* it as subject (inverse patterns as object).
\* ------------------------------------------------------------------------
IsMintedIri(v) ==
  /\ Len(v) = Len(URN_UUID) + 36
  /\ startsWith(v, URN_UUID)
  /\ \A i \in (Len(URN_UUID) + 1)..Len(v) :
       v[i] = "-" \/ \E h \in 1..16 : HexDigits[h] = v[i]

\* C2: all patterns of a compiled create are about one subject, expand_iri of
\* the string input.id or else one minted urn:uuid: IRI
C2_SubjectStable ==
  Compiled("create") =>
    LET ins == TheUpdate.insert.value
        fields == InputFields(FirstRoot)
        f == findByName(fields, N_id)
        s == ins[1].subject
    IN /\ s.termType = "NamedNode"
       /\ IF f # 0
          THEN s.value = expandIri(context, fields[f].value.value)
          ELSE IsMintedIri(s.value)
       /\ \A i \in 1..Len(ins) : ins[i].subject = s \/ ins[i].object = s

\* ------------------------------------------------------------------------
\* C3: a successful update compilation with subject s = expand_iri(id) and
\* input fields f1..fn has, for each i, the delete pattern
\* (s, predicate_iri(fi), ?old_fi), the same pattern in the where BGP and
\* the insert pattern (s, predicate_iri(fi), literal(vi)); the three lists
\* have length n; every variable of delete or insert occurs in where.
\* ------------------------------------------------------------------------
ClaimedPredicateIri(name) == namedNode(context.terms[name].id)

\* C3: delete, where and insert of a compiled update hold, in order, the
\* patterns of its n input fields and nothing else; variables are bound in where
C3_UpdateWellFormed ==
  Compiled("update") =>
    LET fields == InputFields(FirstRoot)
        n == Len(fields)
        s == namedNode(expandIri(context, IdArgument(FirstRoot)))
        del == TheUpdate.delete.value
        ins == TheUpdate.insert.value
        whr == TheUpdate.where.value.patterns
    IN /\ TheUpdate.delete.present /\ TheUpdate.insert.present /\ TheUpdate.where.present
       /\ Len(del) = n /\ Len(ins) = n /\ Len(whr) = n
       /\ \A i \in 1..n :
            /\ del[i] = Pattern(s, ClaimedPredicateIri(fields[i].name),
                                variable(<<"o","l","d","_">> \o fields[i].name))
            /\ whr[i] = del[i]
            /\ ins[i].subject = s
            /\ ins[i].predicate = ClaimedPredicateIri(fields[i].name)
            /\ ins[i].object.termType = "Literal"
            /\ ins[i].object.value = fields[i].value.value
       /\ (VariablesOf(del) \cup VariablesOf(ins)) \subseteq VariablesOf(whr)

\* ------------------------------------------------------------------------
\* C4: a successful compilation of a document whose first root field is a
\* delete, whatever further root fields it holds, has no insert clause and
\* exactly one pattern (expand_iri(id), ?p_del, ?o_del), in both the delete
\* list and the where BGP.
\* ------------------------------------------------------------------------
C4_DeleteOnePattern ==
  Compiled("delete") =>
    LET p == Pattern(namedNode(expandIri(context, IdArgument(FirstRoot))),
                     variable(<<"p","_","d","e","l">>), variable(<<"o","_","d","e","l">>))
    IN /\ ~TheUpdate.insert.present
       /\ TheUpdate.delete.present /\ TheUpdate.delete.value = <<p>>
       /\ TheUpdate.where.present /\ TheUpdate.where.value.patterns = <<p>>

\* ------------------------------------------------------------------------
\* C5: a create whose input holds string-valued relationship fields (named
\* <r>Id, or with is_relationship) whose inverse predicate q is found in the
\* context compiles, and its insert list holds the forward pattern
\* (subject, predicate_iri(r), expand_iri(v)) and the inverse pattern
\* (expand_iri(v), q, subject); so also when the context has no term for
\* the <r>Id name itself.
\* ------------------------------------------------------------------------
\* is_relationship: the term is structured with @type @id, or the name is
\* in the list of common relationship names
ClaimedIsRelationship(f) ==
  \/ /\ f \in DOMAIN context.terms
     /\ context.terms[f].form = "object"
     /\ context.terms[f].type = <<"@","i","d">>
  \/ toLowerCase(f) \in relationshipFields

\* the relationship name of a string-valued relationship field
RelationshipNameOf(f) ==
  IF endsWith(f, <<"I","d">>) THEN SubSeq(f, 1, Len(f) - 2) ELSE f

\* inverse_of(r) is some q: r is in the table of pairs and its inverse name
\* is a term of the context
HasInverse(r) ==
  /\ r \in DOMAIN inversePatterns
  /\ inversePatterns[r] \in DOMAIN context.terms

\* a string-valued relationship field whose relationship and inverse are
\* both mapped by the context
IsLinkedField(field) ==
  /\ field.value.kind = "StringValue"
  /\ endsWith(field.name, <<"I","d">>) \/ ClaimedIsRelationship(field.name)
  /\ RelationshipNameOf(field.name) \in DOMAIN context.terms
  /\ HasInverse(RelationshipNameOf(field.name))

\* a create document of one root field whose input fields are all linked
\* relationship fields
OnlyLinkedFields ==
  /\ Len(mutation.selections) = 1
  /\ RootKind(FirstRoot) = "create"
  /\ HasInputObject(FirstRoot)
  /\ InputFields(FirstRoot) # <<>>
  /\ \A i \in 1..Len(InputFields(FirstRoot)) : IsLinkedField(InputFields(FirstRoot)[i])
  /\ hasTerm(context, substring(FirstRoot.name, 6)) \/ context.vocab.present

\* C5: a create of linked relationship fields compiles and emits the forward
\* and the inverse pattern of each
C5_InverseEmitted ==
  (ConvertEnded /\ OnlyLinkedFields) =>
    /\ algebra.present
    /\ LET ins == TheUpdate.insert.value
           s == ins[1].subject
           fields == InputFields(FirstRoot)
       IN \A i \in 1..Len(fields) :
            LET r == RelationshipNameOf(fields[i].name)
                o == namedNode(expandIri(context, fields[i].value.value))
            IN /\ \E k \in 1..Len(ins) : ins[k] = Pattern(s, ClaimedPredicateIri(r), o)
               /\ \E k \in 1..Len(ins) :
                    ins[k] = Pattern(o, ClaimedPredicateIri(inversePatterns[r]), s)

\* ------------------------------------------------------------------------
\* C6: when a string supplied as an IRI (input.id of a create, the id
\* argument of an update or delete, the string value of a relationship
\* field) holds a disallowed character, the compilation fails with
\* VALIDATION_ERROR and no algebra is built.
\* ------------------------------------------------------------------------
\* the strings the first root field supplies as IRIs
SuppliedIris(node) ==
  IF RootKind(node) = "create"
  THEN { InputFields(node)[i].value.value :
           i \in { j \in 1..Len(InputFields(node)) :
                     /\ InputFields(node)[j].value.kind = "StringValue"
                     /\ \/ InputFields(node)[j].name = <<"i","d">>
                        \/ endsWith(InputFields(node)[j].name, <<"I","d">>)
                        \/ ClaimedIsRelationship(InputFields(node)[j].name) } }
  ELSE IF RootKind(node) \in {"update", "delete"} /\ HasStringId(node)
  THEN {IdArgument(node)}
  ELSE {}

\* C6: a disallowed character in a supplied IRI ends the compilation with
\* VALIDATION_ERROR and without algebra
C6_DisallowedIriRejected ==
  (ConvertEnded /\ \E v \in SuppliedIris(FirstRoot) : HasDisallowedChar(v)) =>
    /\ ~algebra.present
    /\ thrown.present
    /\ thrown.value.code = "VALIDATION_ERROR"

\* ------------------------------------------------------------------------
\* C7: an update with a valid id whose input object has no fields fails
\* with VALIDATION_ERROR; convert returns no algebra and convertToSparql no
\* SPARQL text.
\* ------------------------------------------------------------------------
\* a call on a mutation document, without variables, has ended
CallEnded ==
  /\ pc = "returned"
  /\ mutation.operation = "mutation"
  /\ ~(variables.present /\ Len(variables.value) > 0)

\* the first root field is an update with a string id free of disallowed
\* characters and an input object
UpdateWithInput ==
  /\ RootKind(FirstRoot) = "update"
  /\ HasStringId(FirstRoot)
  /\ ~HasDisallowedChar(IdArgument(FirstRoot))
  /\ HasInputObject(FirstRoot)

\* C7: an update with an empty input object ends with VALIDATION_ERROR and
\* neither algebra nor SPARQL text
C7_EmptyUpdateRejected ==
  (CallEnded /\ UpdateWithInput /\ InputFields(FirstRoot) = <<>>) =>
    /\ ~algebra.present
    /\ ~sparql.present
    /\ thrown.present
    /\ thrown.value.code = "VALIDATION_ERROR"

\* ------------------------------------------------------------------------
\* C8: an update whose input object has a key `id`, at any position and
\* with any value, fails with CONVERSION_ERROR and yields no algebra.
\* ------------------------------------------------------------------------
C8_UpdateOfIdRejected ==
  (CallEnded /\ UpdateWithInput
     /\ \E i \in 1..Len(InputFields(FirstRoot)) :
          InputFields(FirstRoot)[i].name = <<"i","d">>) =>
    /\ ~algebra.present
    /\ ~sparql.present
    /\ thrown.present
    /\ thrown.value.code = "CONVERSION_ERROR"

\* ------------------------------------------------------------------------
\* C9: the literal emitted for a literal-valued input field of a create or
\* update has the datatype of the context term's explicit @type when the
\* term has one, else the datatype of the value kind (Int xsd:integer,
\* Float xsd:double, Boolean xsd:boolean, String plain); a field of any
\* other value kind makes the compilation fail.
\* ------------------------------------------------------------------------
\* the field takes the literal branch of the operation
IsLiteralField(kind, field) ==
  IF kind = "create"
  THEN /\ field.name # <<"i","d">>
       /\ ~(/\ field.value.kind = "StringValue"
            /\ endsWith(field.name, <<"I","d">>) \/ ClaimedIsRelationship(field.name))
  ELSE TRUE

\* the term of the field carries an explicit datatype
HasExplicitType(name) ==
  /\ name \in DOMAIN context.terms
  /\ context.terms[name].form = "object"
  /\ context.terms[name].type \notin {<<>>, <<"@","i","d">>}

ScalarKinds == {"StringValue", "IntValue", "FloatValue", "BooleanValue"}

ClaimedDatatype(field) ==
  IF HasExplicitType(field.name) THEN context.terms[field.name].type
  ELSE CASE field.value.kind = "IntValue" -> XSD_INTEGER
         [] field.value.kind = "FloatValue" -> XSD_DOUBLE
         [] field.value.kind = "BooleanValue" -> XSD_BOOLEAN
         [] OTHER -> XSD_STRING

\* C9: each literal-valued field of a compiled create or update is of a
\* scalar kind and is emitted with the datatype of its term's @type, else of
\* its kind
C9_LiteralDatatype ==
  (Compiled("create") \/ Compiled("update")) =>
    LET fields == InputFields(FirstRoot)
        ins == TheUpdate.insert.value
    IN \A i \in { j \in 1..Len(fields) : IsLiteralField(RootKind(FirstRoot), fields[j]) } :
         /\ fields[i].value.kind \in ScalarKinds
         /\ \E k \in 1..Len(ins) :
              /\ ins[k].predicate = ClaimedPredicateIri(fields[i].name)
              /\ ins[k].object = literal(fields[i].value.value, ClaimedDatatype(fields[i]))

\* ------------------------------------------------------------------------
\* C10: expand_iri(value) is value itself when it starts with http:// or
\* https://; else, when the context defines @base, @base without one
\* trailing slash, then '/', then value (also for a value with a colon);
\* else value itself, and the compilation does not fail for that reason.
\* Observed on every named node a compilation derives from a supplied IRI:
\* the subject of an update or delete (id argument), the subject of a create
\* (input.id) and the object of a relationship pattern.
\* ------------------------------------------------------------------------
IsAbsoluteHttp(v) ==
  \/ Len(v) >= 7 /\ SubSeq(v, 1, 7) = <<"h","t","t","p",":","/","/">>
  \/ Len(v) >= 8 /\ SubSeq(v, 1, 8) = <<"h","t","t","p","s",":","/","/">>

WithoutOneTrailingSlash(b) ==
  IF Len(b) > 0 /\ b[Len(b)] = "/" THEN SubSeq(b, 1, Len(b) - 1) ELSE b

\* the claim as stated: every defined @base is joined
ClaimedExpandIri(v) ==
  IF IsAbsoluteHttp(v) THEN v
  ELSE IF context.base.present
       THEN WithoutOneTrailingSlash(context.base.value) \o <<"/">> \o v
       ELSE v

\* the claim with an empty @base counted as no @base
AmendedExpandIri(v) ==
  IF IsAbsoluteHttp(v) THEN v
  ELSE IF context.base.present /\ context.base.value # <<>>
       THEN WithoutOneTrailingSlash(context.base.value) \o <<"/">> \o v
       ELSE v

\* the first root field is an update or delete with a string id that the
\* injection check lets through
HasPlainId ==
  /\ RootKind(FirstRoot) \in {"update", "delete"}
  /\ HasStringId(FirstRoot)
  /\ \A i \in 1..Len(IdArgument(FirstRoot)) :
       IdArgument(FirstRoot)[i] \notin {"\n", "\r", "<", ">"}

\* the string-valued relationship fields of the first root field of a create
LinkFields ==
  { j \in 1..Len(InputFields(FirstRoot)) :
      /\ InputFields(FirstRoot)[j].name # <<"i","d">>
      /\ InputFields(FirstRoot)[j].value.kind = "StringValue"
      /\ \/ endsWith(InputFields(FirstRoot)[j].name, <<"I","d">>)
         \/ ClaimedIsRelationship(InputFields(FirstRoot)[j].name) }

SchemeChars ==
  { LowerAlphabet[i] : i \in 1..26 } \cup { UpperAlphabet[i] : i \in 1..26 }
  \cup {"0","1","2","3","4","5","6","7","8","9","+","-","."}

\* an absolute IRI starts with a scheme: a letter, then scheme characters,
\* then a colon
IsAbsoluteIri(v) ==
  \E i \in 2..Len(v) :
    /\ v[i] = ":"
    /\ v[1] \in SchemeChars \ {"0","1","2","3","4","5","6","7","8","9","+","-","."}
    /\ \A j \in 1..(i - 1) : v[j] \in SchemeChars

\* C11: the subject of a compiled create is a named node whose value is a
\* minted urn:uuid: IRI when the input has no id, and an absolute IRI
\* otherwise; it is never a blank node and never a relative reference
C11_CreateSubjectAbsolute ==
  Compiled("create") =>
    LET s == TheUpdate.insert.value[1].subject
    IN /\ s.termType = "NamedNode"
       /\ IF findByName(InputFields(FirstRoot), N_id) = 0
          THEN IsMintedIri(s.value)
          ELSE IsAbsoluteIri(s.value)

\* ------------------------------------------------------------------------
\* C12: the first root field's name selects the operation kind and the
\* entity name; other names, a missing or non-string id of an update or
\* delete, and a document that is not a mutation fail.
\* ------------------------------------------------------------------------
\* the algebra has the shape of the given kind: a create is an insert of
\* data whose first pattern types the subject with the entity's type IRI, an
\* update has a where clause and named predicates in its delete list, a
\* delete removes the patterns (s, ?p, ?o)
HasShapeOf(kind, node) ==
  CASE kind = "create" ->
         /\ TheUpdate.insert.present
         /\ ~TheUpdate.delete.present
         /\ ~TheUpdate.where.present
         /\ TheUpdate.insert.value[1].predicate = namedNode(RDF_TYPE)
         /\ TheUpdate.insert.value[1].object = namedNode(ClaimedTypeIri(substring(node.name, 6)))
    [] kind = "update" ->
         /\ TheUpdate.where.present
         /\ TheUpdate.delete.present =>
              \A i \in 1..Len(TheUpdate.delete.value) :
                ~IsVariable(TheUpdate.delete.value[i].predicate)
    [] kind = "delete" ->
         /\ TheUpdate.where.present
         /\ TheUpdate.delete.present
         /\ ~TheUpdate.insert.present
         /\ IsVariable(TheUpdate.delete.value[1].predicate)
    [] OTHER -> FALSE

\* C12: a convert call fails when the document is not a mutation, when its
\* first root field does not start with create, update or delete, and when
\* an update or delete has no string id; an algebra it returns has the shape
\* of the kind named by the first root field
C12_OperationFromFirstRoot ==
  (pc = "returned" /\ method = "convert") =>
    IF mutation.operation # "mutation" THEN thrown.present /\ ~algebra.present
    ELSE /\ RootKind(FirstRoot) = "other" => thrown.present /\ ~algebra.present
         /\ (RootKind(FirstRoot) \in {"update", "delete"} /\ ~HasStringId(FirstRoot))
              => thrown.present /\ ~algebra.present
         /\ algebra.present => HasShapeOf(RootKind(FirstRoot), FirstRoot)

\* an update whose id argument is not a string literal was refused
C12_Witness ==
  /\ ConvertEnded
  /\ RootKind(FirstRoot) = "update"
  /\ findByName(FirstRoot.arguments, N_id) # 0
  /\ ~HasStringId(FirstRoot)
  /\ thrown.present

\* ------------------------------------------------------------------------
\* C14: an id holding '<', '>', a line feed or a carriage return is refused
\* with the injection error, and no SPARQL text is returned.
\* ------------------------------------------------------------------------
InjectionChars == {"<", ">", "\n", "\r"}

HasInjectionChar(v) == \E i \in 1..Len(v) : v[i] \in InjectionChars

INVALID_IRI_MESSAGE ==
  "Invalid IRI: contains illegal characters that could cause injection"

\* a call on a mutation has ended whose first root field is a create with a
\* string input.id, or an update or delete with a string id, holding one of
\* the four characters
IllegalIdCall ==
  /\ pc = "returned"
  /\ mutation.operation = "mutation"
  /\ \/ /\ RootKind(FirstRoot) = "create"
        /\ findByName(InputFields(FirstRoot), N_id) # 0
        /\ InputFields(FirstRoot)[findByName(InputFields(FirstRoot), N_id)].value.kind
             = "StringValue"
        /\ HasInjectionChar(
             InputFields(FirstRoot)[findByName(InputFields(FirstRoot), N_id)].value.value)
     \/ /\ RootKind(FirstRoot) \in {"update", "delete"}
        /\ HasStringId(FirstRoot)
        /\ HasInjectionChar(IdArgument(FirstRoot))

NothingReturned == thrown.present /\ ~algebra.present /\ ~sparql.present

FailsBeforeIdCheck ==
  \/ variables.present /\ Len(variables.value) > 0
  \/ /\ RootKind(FirstRoot) = "create"
     /\ ~hasTerm(context, substring(FirstRoot.name, 6))
     /\ ~hasTerm(context, capitalize(substring(FirstRoot.name, 6)))
     /\ ~context.vocab.present

LiteralBreakers == {"\"", "\n", "\r", "\t", "\\", "}", ";"}

\* the character an escape sequence \c of a SPARQL string stands for ("" when
\* \c is no escape sequence)
Unescaped(c) ==
  CASE c = "n" -> "\n"
    [] c = "r" -> "\r"
    [] c = "t" -> "\t"
    [] c = "\"" -> "\""
    [] c = "\\" -> "\\"
    [] OTHER -> ""

\* the number of backslashes in a row that end right before position i of
\* text, counted from position lo on
BackslashRun(text, i, lo) ==
  Cardinality({ k \in lo..(i - 1) : \A j \in k..(i - 1) : text[j] = "\\" })

\* the first position from i on holding a character of S (0: none)
NextIndex(text, i, S) ==
  IF \E j \in i..Len(text) : text[j] \in S
  THEN CHOOSE j \in i..Len(text) :
         text[j] \in S /\ \A k \in i..(j - 1) : text[k] \notin S
  ELSE 0

\* the quote closing the literal whose content starts at position i: the
\* first quote not preceded by an odd run of backslashes (0: none)
ClosingQuote(text, i) ==
  IF \E j \in i..Len(text) : text[j] = "\"" /\ BackslashRun(text, j, i) % 2 = 0
  THEN CHOOSE j \in i..Len(text) :
         /\ text[j] = "\"" /\ BackslashRun(text, j, i) % 2 = 0
         /\ \A k \in i..(j - 1) : ~(text[k] = "\"" /\ BackslashRun(text, k, i) % 2 = 0)
  ELSE 0

\* position j of a literal's content is the second character of an escape
\* sequence
IsEscaped(c, j) == BackslashRun(c, j, 1) % 2 = 1

\* a literal's content is well formed: no raw line break, only known escape
\* sequences
ValidContent(c) ==
  \A j \in 1..Len(c) :
    /\ c[j] \notin {"\n", "\r"}
    /\ IsEscaped(c, j) => Unescaped(c[j]) # ""

\* the string a well-formed content stands for
Unescape(c) ==
  LET kept == { j \in 1..Len(c) : IsEscaped(c, j) \/ c[j] # "\\" }
      at(m) == CHOOSE j \in kept : Cardinality({ x \in kept : x <= j }) = m
  IN [m \in 1..Cardinality(kept) |->
        IF IsEscaped(c, at(m)) THEN Unescaped(c[at(m)]) ELSE c[at(m)]]

\* a reader of SPARQL text from position i on, term by term (<...> or "..."):
\* it gives the literals read in order, un-escaped, or ok = FALSE when the
\* text ends inside a term or a literal is not well formed
RECURSIVE ReadSparql(_, _, _)
ReadSparql(text, i, lits) ==
  LET j == NextIndex(text, i, {"<", "\""})
  IN IF j = 0 THEN [ok |-> TRUE, literals |-> lits]
     ELSE IF text[j] = "<"
     THEN LET e == NextIndex(text, j + 1, {">"})
          IN IF e = 0 THEN [ok |-> FALSE, literals |-> lits]
             ELSE ReadSparql(text, e + 1, lits)
     ELSE LET e == ClosingQuote(text, j + 1)
          IN IF e = 0 \/ ~ValidContent(SubSeq(text, j + 1, e - 1))
             THEN [ok |-> FALSE, literals |-> lits]
             ELSE ReadSparql(text, e + 1, Append(lits, Unescape(SubSeq(text, j + 1, e - 1))))

\* the string values of the literal fields of the first root field that hold
\* one of the characters
SpecialValues ==
  { InputFields(FirstRoot)[i].value.value :
      i \in { j \in 1..Len(InputFields(FirstRoot)) :
                /\ InputFields(FirstRoot)[j].value.kind = "StringValue"
                /\ IsLiteralField(RootKind(FirstRoot), InputFields(FirstRoot)[j])
                /\ \E k \in 1..Len(InputFields(FirstRoot)[j].value.value) :
                     InputFields(FirstRoot)[j].value.value[k] \in LiteralBreakers } }

\* convertToSparql has returned the text of a create or update of one root
\* field with such a value
SpecialLiteralCompiled ==
  /\ CallEnded
  /\ method = "convertToSparql"
  /\ sparql.present
  /\ Len(mutation.selections) = 1
  /\ RootKind(FirstRoot) \in {"create", "update"}
  /\ SpecialValues # {}

IsVariableRef(valueNode) == valueNode.kind = "Variable"

\* the id argument or the input (or one of its values) of the root field is
\* a $variable reference
RefersToVariable(node) ==
  \/ \E a \in 1..Len(node.arguments) :
       /\ node.arguments[a].name \in {N_id, N_input}
       /\ IsVariableRef(node.arguments[a].value)
  \/ \E i \in 1..Len(InputFields(node)) : IsVariableRef(InputFields(node)[i].value)

\* a call of mutate with a mutation string, on a Client whose context was
\* parsed, has got past its compilation step
MutateCompilationDone ==
  /\ client.pc \in {"mutate:update", "settled"}
  /\ client.method = "mutate"
  /\ client.args.form = "query"
  /\ client.context.ok

\* C13: a convert or convertToSparql call fails, returning no algebra and no
\* SPARQL text, when convertToSparql is given a non-empty variables map and
\* when a root field of the document has a $variable reference as id or as
\* input value; Client.mutate rejects with the code UNSUPPORTED_FEATURE when
\* given a non-empty variables map, and in both cases it produces no SPARQL
\* text and does not call the engine's update
C13_VariablesFailFast ==
  /\ (pc = "returned" /\ mutation.operation = "mutation") =>
       /\ (variables.present /\ Len(variables.value) > 0) => NothingReturned
       /\ (\E r \in 1..Len(mutation.selections) : RefersToVariable(mutation.selections[r]))
            => NothingReturned
  /\ (client.pc # "none" /\ MutateCompilationDone) =>
       /\ (client.args.variables.present /\ Len(client.args.variables.value) > 0) =>
            /\ client.outcome.value.settled = "rejected"
            /\ client.outcome.value.value.name = "QueryEngineError"
            /\ client.outcome.value.value.code = "UNSUPPORTED_FEATURE"
       /\ (\/ client.args.variables.present /\ Len(client.args.variables.value) > 0
           \/ \E r \in 1..Len(client.args.query.selections) :
                RefersToVariable(client.args.query.selections[r])) =>
            /\ client.pc = "settled"
            /\ client.outcome.value.settled = "rejected"
            /\ ~client.sparqlUpdate.present
            /\ queryEngine.updates = <<>>

\* ------------------------------------------------------------------------
\* C16: for a mutation that compiles, the outcome of Client.mutate follows
\* from how the engine's update settles.
\* ------------------------------------------------------------------------
\* a call of mutate has settled after update was called with the compiled
\* text and settled
MutateSettledByEngine ==
  /\ client.pc = "settled"
  /\ client.method = "mutate"
  /\ client.sparqlUpdate.present
  /\ queryEngine.outcome.present

\* what may stand before the original message in a reported message
MessagePrefixes == {"", "Mutation failed: ", "Query execution failed: "}

ErrorsOfCall ==
  IF client.outcome.value.settled = "rejected" THEN {client.outcome.value.value}
  ELSE IF client.outcome.value.value.errors.present
       THEN { client.outcome.value.value.errors.value[i] :
                i \in 1..Len(client.outcome.value.value.errors.value) }
       ELSE {}

CodeOf(e) == IF e.name = "GraphQLError" THEN e.extensions.code ELSE e.code

\* the call failed on an untyped error of the engine call
EngineFailedUntyped ==
  /\ queryEngine.outcome.present
  /\ queryEngine.outcome.value.settled = "rejected"
  /\ queryEngine.outcome.value.value.name # "QueryEngineError"

\* C17: every error a settled call of mutate or query hands to its caller is
\* a typed error with a code; when the engine call failed on an untyped error
\* the code is MUTATION_ERROR (mutate) or QUERY_ERROR (query) and the error
\* holds the original one as its cause
C17_FailuresTyped ==
  (client.pc = "settled") =>
    \A e \in ErrorsOfCall :
      /\ e.name \in {"QueryEngineError", "GraphQLError"}
      /\ CodeOf(e) # NoCode
      /\ EngineFailedUntyped =>
           /\ CodeOf(e) = (IF client.method = "mutate" THEN "MUTATION_ERROR" ELSE "QUERY_ERROR")
           /\ "originalError" \in DOMAIN e
           /\ isError(queryEngine.outcome.value.value) =>
                e.originalError = Present(queryEngine.outcome.value.value)

\* ------------------------------------------------------------------------
\* C18: Client.mutate given a pre-converted algebra in args.sparqlAlgebra and
\* no query runs it through the engine's update and yields a mutation result.
\* ------------------------------------------------------------------------
\* C18: a settled call of mutate with args.sparqlAlgebra, on an engine that
\* has update, has called update once and has an outcome that follows from
\* the outcome of update as for a mutation string
C18_MutateWithAlgebra ==
  (/\ client.pc = "settled"
   /\ client.method = "mutate"
   /\ client.args.form = "sparqlAlgebra"
   /\ queryEngine.hasUpdate) =>
    /\ Len(queryEngine.updates) = 1
    /\ queryEngine.outcome.present
    /\ \/ client.outcome.value.settled = "resolved"
       \/ client.outcome.value = Rejected(queryEngine.outcome.value.value)

\* ------------------------------------------------------------------------
\* C19: a call of QueryEngineSparqlEndpoint.query or update whose endpoint
\* has not delivered its complete response within the timeout is rejected
\* with a QueryEngineError of code TIMEOUT, wherever the exchange stalls.
\* ------------------------------------------------------------------------
\* the timeout has passed and the exchange is still under way
Overdue == http.pc \in {"fetch", "text", "json"} /\ http.elapsed

\* the call has settled, and the timeout passed while the exchange was under
\* way
LateSettled == http.pc = "settled" /\ http.elapsed

TimedOut ==
  /\ http.pc = "settled"
  /\ http.outcome.value.settled = "rejected"
  /\ isQueryEngineError(http.outcome.value.value)
  /\ http.outcome.value.value.code = "TIMEOUT"

\* C19: a call that settles after its timeout passed during the exchange is
\* rejected with code TIMEOUT, so never resolved with a result, and a call
\* whose timeout has passed during the exchange does get so rejected
C19_TimeoutRejects == [](LateSettled => TimedOut) /\ (Overdue ~> TimedOut)

\* ------------------------------------------------------------------------
\* C20: every rejection of QueryEngineSparqlEndpoint.query or update is a
\* QueryEngineError with the code of its cause, and update resolves with
\* success = true exactly for a 2xx response.
\* ------------------------------------------------------------------------
\* the code the cause of a rejection calls for: TIMEOUT when the abort
\* fired; for a value thrown by the transport or a body reader,
\* EXECUTION_ERROR or UNKNOWN_ERROR; HTTP_<status> for a response that is not
\* 2xx; INVALID_RESPONSE_FORMAT for a body that fails the shape check
ExpectedCodes ==
  IF http.aborted THEN {"TIMEOUT"}
  ELSE IF http.caught.present /\ ~isQueryEngineError(http.caught.value)
  THEN {IF isError(http.caught.value) THEN "EXECUTION_ERROR" ELSE "UNKNOWN_ERROR"}
  ELSE IF http.response.present /\ http.response.value.status \notin 200..299
  THEN {"HTTP_" \o ToString(http.response.value.status)}
  ELSE IF http.body.present
  THEN {"INVALID_RESPONSE_FORMAT"}
  ELSE {"EXECUTION_ERROR"}

\* C20: a settled call that is rejected is rejected with a QueryEngineError
\* of the code its cause calls for, and a settled update is resolved with
\* success = true if and only if its response has a 2xx status
C20_RejectionClasses ==
  (http.pc = "settled") =>
    /\ (http.outcome.value.settled = "rejected") =>
         /\ isQueryEngineError(http.outcome.value.value)
         /\ http.outcome.value.value.code \in ExpectedCodes
    /\ (http.method = "update") =>
         ((/\ http.outcome.value.settled = "resolved"
           /\ http.outcome.value.value.success)
          <=> (/\ http.response.present
               /\ http.response.value.status \in 200..299))

\* ------------------------------------------------------------------------
\* C21: a successful query made with maxResults n returns the first
\* min(n, length) bindings of the endpoint's response, in their order, and
\* head.vars unchanged.
\* ------------------------------------------------------------------------
\* a call of query has resolved
QueryResolved ==
  /\ http.pc = "settled"
  /\ http.method = "query"
  /\ http.outcome.value.settled = "resolved"

\* the bindings of the endpoint's response and those of the returned result
ResponseBindings == http.body.value.results.value.bindings.value

ReturnedBindings == http.outcome.value.value.results.value.bindings.value

\* C21: the result of a resolved query holds at most maxResults bindings,
\* they are the leading bindings of the response, and its head is the head
\* of the response
C21_MaxResultsPrefix ==
  QueryResolved =>
    /\ Len(ReturnedBindings) <= http.options.maxResults
    /\ ReturnedBindings =
         SubSeq(ResponseBindings, 1,
                IF http.options.maxResults < Len(ResponseBindings)
                THEN http.options.maxResults ELSE Len(ResponseBindings))
    /\ http.outcome.value.value.head = http.body.value.head

\* ------------------------------------------------------------------------
\* C22: on every exit path of query and update the timeout timer and the
\* abort token of the call are released by the time the call settles.
\* ------------------------------------------------------------------------
\* C22: a settled call has no timer that is still armed, so none that can
\* fire an abort after the call has resolved or rejected
C22_TimerReleased == (http.pc = "settled") => (http.timer # "armed")

\* ------------------------------------------------------------------------
\* C23: concurrent calls on one QueryEngineSparqlEndpoint are independent:
\* each issues its own single POST, its outcome depends only on its own
\* response and timeout, and no call aborts, fails or alters another.
\* ------------------------------------------------------------------------
\* the calls on the instance, running or not
Calls == {http} \cup { parked[i] : i \in DOMAIN parked }

Started(c) == c.pc # "idle"

\* query could not serialize its algebra: it ended before fetch
EndedBeforeFetch(c) ==
  /\ c.pc = "settled"
  /\ c.method = "query"
  /\ c.outcome.value.settled = "rejected"
  /\ ~c.response.present
  /\ ~c.caught.present

\* what call c has and how it ended come from its own timer and response
OwnOutcome(c) ==
  /\ c.aborted => (c.timer = "fired" /\ c.elapsed)
  /\ (c.pc = "settled" /\ ~EndedBeforeFetch(c)) =>
       /\ (c.outcome.value.settled = "rejected" /\ c.outcome.value.value.code = "TIMEOUT")
            <=> c.aborted
       /\ (c.outcome.value.settled = "rejected"
           /\ c.outcome.value.value.code \notin {"TIMEOUT", "EXECUTION_ERROR", "UNKNOWN_ERROR",
                                                 "INVALID_RESPONSE_FORMAT"}) =>
            /\ c.response.present
            /\ c.outcome.value.value.code = "HTTP_" \o ToString(c.response.value.status)
       /\ (c.outcome.value.settled = "resolved") =>
            /\ c.response.present
            /\ c.response.value.status \in 200..299
            /\ (c.method = "query") =>
                 /\ c.body.present
                 /\ c.outcome.value.value = limitResults(c.body.value, c.options.maxResults)

\* a step leaves every other call as it was: at most it takes the place of
\* the running call, which is parked unchanged
OthersUntouched ==
  \A i \in DOMAIN parked :
    \/ parked'[i] = parked[i]
    \/ (parked'[i] = http /\ http' = parked[i])

\* C23 as stated: every started call has issued exactly one POST, its
\* outcome comes from its own response and timeout, and no step of one call
\* changes another
C23_CallsIndependent ==
  /\ [](\A c \in Calls : Started(c) => (c.posts = 1 /\ OwnOutcome(c)))
  /\ [][OthersUntouched]_vars

\* C23 (amended): every started call has issued exactly one POST, or none
\* when it is a query that failed to serialize its algebra; its outcome comes
\* from its own response and timeout, and no step of one call changes another
C23_SerializedCallsIndependent ==
  /\ [](\A c \in Calls :
          Started(c) => /\ c.posts = (IF EndedBeforeFetch(c) THEN 0 ELSE 1)
                        /\ OwnOutcome(c))
  /\ [][OthersUntouched]_vars

\* one call has timed out and another, concurrent with it, has resolved
C23_Witness ==
  /\ http.pc = "settled"
  /\ http.aborted
  /\ http.outcome.value.value.code = "TIMEOUT"
  /\ \E i \in DOMAIN parked :
       /\ parked[i].pc = "settled"
       /\ parked[i].outcome.value.settled = "resolved"
       /\ ~parked[i].elapsed

\* ------------------------------------------------------------------------
\* C24: QueryCache.get returns the value of the last set of the key: right
\* after set(k, v) it returns v, after two sets the second value, and
\* undefined for a key never set, or deleted or cleared since its last set.
\* ------------------------------------------------------------------------
\* the step is a call of get
IsGet == cache'.last.op = "get"

\* C24: a get of the key that was just set returns the value set; a get of a
\* key that was never set, or was deleted or cleared since, returns
\* undefined; and whatever a get returns is the value of the last set of its
\* key
C24_GetAfterSet ==
  [][IsGet =>
       /\ (cache.last.op = "set" /\ cache.last.key = cache'.last.key) =>
            cache'.last.result = cache.last.result
       /\ (cache.written[cache'.last.key] = undefined) => cache'.last.result = undefined
       /\ (cache'.last.result # undefined) =>
            cache'.last.result = cache.written[cache'.last.key]]_vars

\* a get on a full cache has returned the value v2 of its key, which is now
\* the most recently used
C24_Witness ==
  /\ cache.pc = "ready"
  /\ cache.last.op = "get"
  /\ cache.last.result = Present("v2")
  /\ size(cache) = cache.maxEntries
  /\ cache.accessOrder[Len(cache.accessOrder)] = cache.last.key

\* ------------------------------------------------------------------------
\* C25: a set that inserts a new key into a full QueryCache evicts exactly
\* one entry, the least recently accessed one, and keeps every other entry.
\* ------------------------------------------------------------------------
\* the step is a set of a key that has no entry, on a cache that holds
\* maxEntries entries
InsertsIntoFull ==
  /\ cache'.last.op = "set"
  /\ ~cache.entries[cache'.last.key].present
  /\ size(cache) = cache.maxEntries

\* the keys whose entry the step removes
Removed == {k \in Keys : cache.entries[k].present /\ ~cache'.entries[k].present}

\* C25: a set of a new key on a full cache removes the entry of the least
\* recently accessed key and no other, and leaves the other entries as they
\* were
C25_EvictsLeastRecent ==
  [][InsertsIntoFull =>
       /\ Removed = {cache.recency[1]}
       /\ \A k \in Keys \ (Removed \cup {cache'.last.key}) :
            cache'.entries[k] = cache.entries[k]]_vars

\* a new key has just been set into a cache of two entries whose older key
\* had been read since the newer was set: the newer key is the one evicted
C25_Witness ==
  /\ cache.pc = "ready"
  /\ cache.maxEntries = 2
  /\ cache.last.op = "set"
  /\ cache.recency = <<"k1", "k3">>
  /\ cache.written["k2"] # undefined
  /\ ~cache.entries["k2"].present
  /\ cache.entries["k1"].present

\* ------------------------------------------------------------------------
\* C26: an entry stored by set(k, v, ttl) at time t, ttl defaulting to the
\* cache's defaultTtl, is returned by get(k) up to t + ttl unless evicted or
\* deleted, and never after t + ttl, when get removes it.
\* ------------------------------------------------------------------------
\* C26: a get of a key that has an entry returns its value when the time to
\* live asked for by its set has not ended, and otherwise returns undefined
\* and leaves no entry under the key
C26_TtlHonoured ==
  [][(IsGet /\ cache.entries[cache'.last.key].present) =>
       IF cache.now <= cache.due[cache'.last.key]
       THEN cache'.last.result = cache.written[cache'.last.key]
       ELSE /\ cache'.last.result = undefined
            /\ ~cache'.entries[cache'.last.key].present]_vars

\* ------------------------------------------------------------------------
\* C27: an unexpired QueryCache entry is removed only by delete of its key,
\* by clear, or by the eviction of a set of a key not yet in the cache that
\* would take the size above maxEntries.
\* ------------------------------------------------------------------------
\* C27: a step that removes an entry that has not expired is a delete of its
\* key, a clear, or a set of a key without an entry on a full cache; a set of
\* a key that has an entry so removes no other key
C27_RemovalOnlyByOwner ==
  [][\A k \in Removed :
       \/ isExpired(cache, cache.entries[k])
       \/ (cache'.last.op = "delete" /\ cache'.last.key = k)
       \/ cache'.last.op = "clear"
       \/ InsertsIntoFull]_vars

C29_WalkEndsValidated ==
  (validator.pc = "returned") =>
    \/ validator.outcome.value.ok
    \/ validator.outcome.value.error.name = "ValidationError"

\* ------------------------------------------------------------------------
\* C30: a call of Client.mutate invokes the engine's update at most once,
\* only with the SPARQL string the mutation compiled to, and not at all when
\* variables are supplied, compilation fails or the engine has no update.
\* ------------------------------------------------------------------------
\* the SPARQL strings the mutation of the call compiles to
CompiledTexts ==
  IF client.args.form = "query" /\ client.context.ok
  THEN { r.value : r \in { c \in { convertToSparql(client.context.value, client.args.query,
                                                   client.args.variables, rnds)
                                   : rnds \in RandomSources(MaxRootFields) } : c.ok } }
  ELSE {}

VariablesSupplied ==
  client.args.variables.present /\ Len(client.args.variables.value) > 0

\* C30: during and after a call of mutate the engine has received no query
\* and at most one update; an update it received carries a string the
\* mutation compiles to; and it received none when variables were supplied,
\* when nothing compiles or when the engine has no update
C30_UpdateOnceWithCompiledText ==
  (client.pc # "none" /\ client.method = "mutate") =>
    /\ queryEngine.queries = 0
    /\ Len(queryEngine.updates) <= 1
    /\ \A i \in 1..Len(queryEngine.updates) : queryEngine.updates[i] \in CompiledTexts
    /\ (VariablesSupplied \/ CompiledTexts = {} \/ ~queryEngine.hasUpdate) =>
         queryEngine.updates = <<>>

\* a call of mutate has resolved after the engine received its one update
C30_Witness ==
  /\ client.pc = "settled"
  /\ client.method = "mutate"
  /\ Len(queryEngine.updates) = 1
  /\ client.outcome.value.settled = "resolved"

====
